---- MODULE Spec2Model ----
(***************************************************************************)
(* A model of gomini, a minimal container runtime (dendencat/minimal-      *)
(* container): the process orchestrator (internal/proc), the namespace     *)
(* helpers (internal/ns), the rootfs manager (internal/fs), the cgroup     *)
(* manager (internal/cg) and the command-line entry point.                 *)
(*                                                                         *)
(* Nine specifications share the module:                                  *)
(*   Spec      the orchestrator: a parent process calling Run and, on the  *)
(*             re-exec path, the child it spawns running                   *)
(*             HandleContainerInit, interleaved by the OS scheduler;       *)
(*   SpecArgs  the argument-list encoding carried in GOMINI_ARGS;          *)
(*   SpecMain  the dispatch of main on its first argument;                 *)
(*   SpecRun   runCommand: the flags, the positional arguments and the     *)
(*             command it settles on;                                      *)
(*   SpecCg    the life of one cgroup manager (package cg);                *)
(*   SpecCgs   the cgroup managers of two containers on one host;          *)
(*   SpecNs    CloneFlags and WaitForChild of package ns;                  *)
(*   SpecExec  the environment and the arguments execProcess execs with;   *)
(*   SpecSetup SetupCgroups and what a later Run does with the cgroup.     *)
(*                                                                         *)
(* Go strings whose bytes matter (the argument list) are sequences of      *)
(* one-character tokens; the token "xFF" is a byte that is not valid       *)
(* UTF-8 and "uFFFD" is the Unicode replacement character.                 *)
(***************************************************************************)
EXTENDS Integers, Sequences, FiniteSets, TLC

VARIABLES
    cfg,      \* the bundle configuration and the caller's choices, fixed per run
    env,      \* the environment of the host: which external operations can fail
    pc,       \* pc[p]: the position of process p in its code
    cp,       \* cp[p]: the ContainerProcess value process p holds
    ret,      \* ret[p]: what Run / HandleContainerInit returned in p
    log,      \* log[p]: the operations process p has issued, in order
    nsOf,     \* nsOf[p]: the namespaces p has entered as its own new ones
    childEnv, \* the GOMINI_* environment variables handed to the child
    status,   \* the wait status of the child process
    cgroup,   \* the container's cgroup directory: exists, member processes
    codec,    \* SpecArgs: the argument list being encoded and decoded
    cli,      \* SpecMain: the command line and where main dispatched it
    cgm,      \* SpecCg: a cgroup manager, its cgroup directory and its calls
    nsc,      \* SpecNs: one call of a function of package ns
    rc,       \* SpecRun: one call of runCommand
    cgs,      \* SpecCgs: the cgroups of two containers on one host
    ex,       \* SpecExec: one ContainerProcess from its configuration to its exec
    sc        \* SpecSetup: one ContainerProcess through SetupCgroups and Run

vars == <<cfg, env, pc, cp, ret, log, nsOf, childEnv, status, cgroup, codec, cli, cgm, nsc, rc, cgs, ex, sc>>

procVars == <<cfg, env, pc, cp, ret, log, nsOf, childEnv, status, cgroup>>

----------------------------------------------------------------------------
(* Bounds of the model *)

\* longest argument, in characters, that SpecArgs enumerates
MaxArgLen == 2

\* longest argument list that SpecArgs enumerates
MaxArgs == 2

\* largest exit code the target binary exits with
MaxExitCode == 2

\* most words after the program name on the command line of SpecMain
MaxArgv == 2

\* largest value of a field of the resource limits in SpecCg
MaxLimit == 1

\* largest exit code of the child WaitForChild waits for in SpecNs
MaxWaitCode == 42

\* largest signal number that kills or stops that child
MaxSignal == 15

\* most arguments after "run" on the command line of SpecRun
MaxRunArgs == 4

\* longest list of namespace type names handed to ConfigFromSpec in SpecNs
MaxNsTypes == 3

----------------------------------------------------------------------------
(* The state of a specification that is not running *)

CgmIdle == [pc |-> "idle"]

NscIdle == [pc |-> "idle"]

RcIdle == [pc |-> "idle"]

CgsIdle == [pc |-> "idle"]

ExIdle == [pc |-> "idle"]

ScIdle == [pc |-> "idle"]

----------------------------------------------------------------------------
(* Small helpers *)

SeqsUpTo(S, n) == UNION {[1..k -> S] : k \in 0..n}

RECURSIVE Concat(_)
Concat(ss) == IF ss = <<>> THEN <<>> ELSE Head(ss) \o Concat(Tail(ss))

----------------------------------------------------------------------------
(* Strings and the JSON encoding of the argument list (encoding/json as    *)
(* used by runWithPIDNamespace and HandleContainerInit)                    *)

\* the characters an argument is made of in SpecArgs
ArgChars == {"a", " ", ",", "<", "\"", "\\", "xFF"}

\* encoding/json writes a string's characters one by one: the quote and the
\* backslash are backslash-escaped, the HTML-sensitive "<" becomes the escape
\* u003c, and a byte that is not valid UTF-8 is replaced by U+FFFD, written as
\* the escape ufffd
EscapeChar(c) ==
    CASE c = "\"" -> <<"\\", "\"">>
      [] c = "\\" -> <<"\\", "\\">>
      [] c = "<" -> <<"\\", "u", "0", "0", "3", "c">>
      [] c = "xFF" -> <<"\\", "u", "f", "f", "f", "d">>
      [] OTHER -> <<c>>

EncodeString(s) ==
    <<"\"">> \o Concat([i \in DOMAIN s |-> EscapeChar(s[i])]) \o <<"\"">>

\* json.Marshal of a []string: null for the nil slice, else the quoted
\* elements between brackets, separated by commas
Marshal(args) ==
    IF args = <<>>
    THEN <<"n", "u", "l", "l">>
    ELSE <<"[">>
         \o Concat([i \in DOMAIN args |->
                      (IF i = 1 THEN <<>> ELSE <<",">>) \o EncodeString(args[i])])
         \o <<"]">>

\* the character a four-digit unicode escape stands for, "" when the model has none
UnicodeEscape(h) ==
    CASE h = <<"0", "0", "3", "c">> -> "<"
      [] h = <<"f", "f", "f", "d">> -> "uFFFD"
      [] OTHER -> ""

\* the JSON string starting after its opening quote at w[i]: the decoded
\* characters and the index after the closing quote
RECURSIVE ParseString(_, _, _)
ParseString(w, i, acc) ==
    IF i > Len(w) THEN [ok |-> FALSE, val |-> acc, next |-> i]
    ELSE IF w[i] = "\"" THEN [ok |-> TRUE, val |-> acc, next |-> i + 1]
    ELSE IF w[i] = "\\" THEN
        IF i + 1 > Len(w) THEN [ok |-> FALSE, val |-> acc, next |-> i]
        ELSE IF w[i + 1] \in {"\"", "\\"}
             THEN ParseString(w, i + 2, Append(acc, w[i + 1]))
        ELSE IF w[i + 1] = "u" /\ i + 5 <= Len(w)
                /\ UnicodeEscape(SubSeq(w, i + 2, i + 5)) # ""
             THEN ParseString(w, i + 6,
                              Append(acc, UnicodeEscape(SubSeq(w, i + 2, i + 5))))
        ELSE [ok |-> FALSE, val |-> acc, next |-> i]
    ELSE IF w[i] = "xFF" THEN ParseString(w, i + 1, Append(acc, "uFFFD"))
    ELSE ParseString(w, i + 1, Append(acc, w[i]))

\* the elements of a JSON array from w[i] on, w[i] being where an element
\* is expected
RECURSIVE ParseElements(_, _, _)
ParseElements(w, i, acc) ==
    IF i > Len(w) \/ w[i] # "\"" THEN [ok |-> FALSE, val |-> acc]
    ELSE LET s == ParseString(w, i + 1, <<>>) IN
         IF ~s.ok \/ s.next > Len(w) THEN [ok |-> FALSE, val |-> acc]
         ELSE IF w[s.next] = "]"
              THEN [ok |-> s.next = Len(w), val |-> Append(acc, s.val)]
         ELSE IF w[s.next] = ","
              THEN ParseElements(w, s.next + 1, Append(acc, s.val))
         ELSE [ok |-> FALSE, val |-> acc]

\* json.Unmarshal into a nil []string: null leaves it nil, an array of
\* strings fills it, anything else is an error
Unmarshal(w) ==
    IF w = <<"n", "u", "l", "l">> THEN [ok |-> TRUE, val |-> <<>>]
    ELSE IF Len(w) >= 2 /\ w[1] = "[" THEN
        IF w = <<"[", "]">> THEN [ok |-> TRUE, val |-> <<>>]
        ELSE ParseElements(w, 2, <<>>)
    ELSE [ok |-> FALSE, val |-> <<>>]

\* OverrideArgs: a non-empty list replaces the arguments, an empty one is ignored
OverrideArgs(current, args) == IF Len(args) > 0 THEN args ELSE current

\* OverrideHostname: a non-empty name replaces the hostname
OverrideHostname(current, hostname) == IF hostname # "" THEN hostname ELSE current

----------------------------------------------------------------------------
(* SpecArgs: one argument list taken across the re-exec boundary *)

\* the argument list of the bundle's configuration, here ["a"]
DefaultArgs == << <<"a">> >>

ArgStrings == SeqsUpTo(ArgChars, MaxArgLen)

ArgLists == {l \in SeqsUpTo(ArgStrings, MaxArgs) : l # <<>>}

CodecIdle == [pc |-> "idle", args |-> <<>>, wire |-> <<>>, ok |-> TRUE,
              decoded |-> <<>>, final |-> <<>>]

\* the parent writes GOMINI_ARGS
EncodeArgs ==
    /\ codec.pc = "encode"
    /\ codec' = [codec EXCEPT !.pc = "decode", !.wire = Marshal(codec.args)]
    /\ UNCHANGED <<procVars, cli, cgm, nsc, rc, cgs, ex, sc>>

\* the child reads GOMINI_ARGS and overrides the arguments of the reloaded bundle
DecodeArgs ==
    /\ codec.pc = "decode"
    /\ LET u == IF codec.wire # <<>> THEN Unmarshal(codec.wire)
                ELSE [ok |-> TRUE, val |-> <<>>]
       IN codec' = [codec EXCEPT !.pc = "done",
                                 !.ok = u.ok,
                                 !.decoded = u.val,
                                 !.final = IF u.ok THEN OverrideArgs(DefaultArgs, u.val)
                                           ELSE <<>>]
    /\ UNCHANGED <<procVars, cli, cgm, nsc, rc, cgs, ex, sc>>

NextArgs == EncodeArgs \/ DecodeArgs

----------------------------------------------------------------------------
(* Namespaces (package ns) *)

CLONE_NEWNS == 131072
CLONE_NEWUTS == 67108864
CLONE_NEWIPC == 134217728
CLONE_NEWUSER == 268435456
CLONE_NEWPID == 536870912
CLONE_NEWNET == 1073741824

\* NamespaceFromSpec: the OCI type name to the runtime's own, "" when unknown
NamespaceFromSpec(specType) ==
    CASE specType = "uts" -> "uts"
      [] specType = "pid" -> "pid"
      [] specType = "mount" -> "mount"
      [] specType = "ipc" -> "ipc"
      [] specType = "network" -> "net"
      [] specType = "user" -> "user"
      [] OTHER -> ""

\* &NamespaceConfig{}: no member is set
NoConfig == [UTS |-> FALSE, PID |-> FALSE, Mount |-> FALSE, IPC |-> FALSE,
             Net |-> FALSE, User |-> FALSE]

\* ConfigFromSpec: the switch of the loop body: the member the type names is
\* set; no case for "", the type of an unknown name
SetMember(config, t) ==
    CASE t = "uts" -> [config EXCEPT !.UTS = TRUE]
      [] t = "pid" -> [config EXCEPT !.PID = TRUE]
      [] t = "mount" -> [config EXCEPT !.Mount = TRUE]
      [] t = "ipc" -> [config EXCEPT !.IPC = TRUE]
      [] t = "net" -> [config EXCEPT !.Net = TRUE]
      [] t = "user" -> [config EXCEPT !.User = TRUE]
      [] OTHER -> config

\* ConfigFromSpec: the loop over the list, from its first element to its last
RECURSIVE ConfigFromSpecLoop(_, _)
ConfigFromSpecLoop(config, namespaces) ==
    IF namespaces = <<>> THEN config
    ELSE ConfigFromSpecLoop(SetMember(config, NamespaceFromSpec(Head(namespaces))),
                            Tail(namespaces))

\* a loop that ends at the first name NamespaceFromSpec does not know
RECURSIVE LoopUntilUnknown(_, _)
LoopUntilUnknown(config, namespaces) ==
    IF namespaces = <<>> \/ NamespaceFromSpec(Head(namespaces)) = "" THEN config
    ELSE LoopUntilUnknown(SetMember(config, NamespaceFromSpec(Head(namespaces))),
                          Tail(namespaces))

\* a variant of ConfigFromSpec that gives up at the first unknown name
ConfigFromSpec_StopAtUnknown(namespaces) == LoopUntilUnknown(NoConfig, namespaces)

\* ConfigFromSpec: a new NamespaceConfig, each element of the list setting the
\* member it names
ConfigFromSpec(namespaces) == ConfigFromSpecLoop(NoConfig, namespaces)

\* a variant of CloneFlags that forgets the user namespace
CloneFlags_NoUser(nc) ==
      (IF nc.UTS THEN CLONE_NEWUTS ELSE 0)
    + (IF nc.PID THEN CLONE_NEWPID ELSE 0)
    + (IF nc.Mount THEN CLONE_NEWNS ELSE 0)
    + (IF nc.IPC THEN CLONE_NEWIPC ELSE 0)
    + (IF nc.Net THEN CLONE_NEWNET ELSE 0)

\* CloneFlags: each enabled member ORs its own bit in; the bits are distinct,
\* so the OR is the sum
CloneFlags(nc) ==
      (IF nc.UTS THEN CLONE_NEWUTS ELSE 0)
    + (IF nc.PID THEN CLONE_NEWPID ELSE 0)
    + (IF nc.Mount THEN CLONE_NEWNS ELSE 0)
    + (IF nc.IPC THEN CLONE_NEWIPC ELSE 0)
    + (IF nc.Net THEN CLONE_NEWNET ELSE 0)
    + (IF nc.User THEN CLONE_NEWUSER ELSE 0)

HasFlag(flags, bit) == (flags \div bit) % 2 = 1

\* the namespaces the kernel creates for a process given these flags
\* (clone at process creation, or unshare)
NamespacesOf(flags) ==
    {k \in {"uts", "pid", "mount", "ipc", "net", "user"} :
        HasFlag(flags, CASE k = "uts" -> CLONE_NEWUTS
                         [] k = "pid" -> CLONE_NEWPID
                         [] k = "mount" -> CLONE_NEWNS
                         [] k = "ipc" -> CLONE_NEWIPC
                         [] k = "net" -> CLONE_NEWNET
                         [] k = "user" -> CLONE_NEWUSER)}

----------------------------------------------------------------------------
(* Spec: the orchestrator (package proc), its parent and child processes *)

Procs == {"parent", "child"}

\* the namespace lists of the bundle configurations the model runs
NamespaceLists ==
    { <<>>,
      <<"uts", "mount">>,
      <<"pid">>,
      <<"pid", "uts", "mount", "ipc", "network", "user">> }

\* the argument lists a caller overrides the bundle's arguments with; <<>> is
\* no override
OverridePool ==
    { <<>>,
      << <<"s">>, <<"e", " ", "h">> >>,
      << <<"a">>, <<"xFF">> >> }

ExitCodes == 0..MaxExitCode

Signals == {9, 15}

\* a variant of BasicMounts that mounts /sys before /dev
BasicMounts_SysBeforeDev == <<"/proc", "/sys", "/dev", "/dev/pts", "/dev/shm">>

\* the five baseline mounts of CreateBasicMounts, in order
BasicMounts == <<"/proc", "/dev", "/dev/pts", "/dev/shm", "/sys">>

NoCP == [BundleDir |-> "", Hostname |-> "", Args |-> <<>>, WorkingDir |-> "",
         HasManager |-> FALSE]

\* NewContainerProcess: the fields come from the configuration, no cgroup manager
NewContainerProcess(config, bundleDir) ==
    [BundleDir |-> bundleDir, Hostname |-> config.hostname, Args |-> config.args,
     WorkingDir |-> config.cwd, HasManager |-> FALSE]

Running == [kind |-> "running", code |-> 0]
NotStarted == [kind |-> "none", code |-> 0]
Exited(c) == [kind |-> "exited", code |-> c]
Signaled(sig) == [kind |-> "signaled", code |-> sig]

\* the operations of the initialization sequence that act on the process
InitOps == {"sethostname", "stat", "mkdir", "pivot_root", "chdir", "unmount",
            "removeall", "chroot", "mount", "exec"}

\* how far the child has got, as the parent's operations observe it
ChildPhase ==
    CASE pc["child"] = "none" -> "none"
      [] pc["child"] = "exited" -> "exited"
      [] pc["child"] = "target" -> "target"
      [] \E i \in DOMAIN log["child"] : log["child"][i].op \in InitOps -> "init"
      [] OTHER -> "spawned"

Entry(p, op, arg, ok) ==
    [op |-> op, arg |-> arg, ok |-> ok,
     peer |-> IF p = "parent" THEN ChildPhase ELSE "-"]

\* process p issues the operations es, in order
Logged(p, es) == log' = [log EXCEPT ![p] = @ \o es]

\* p's function returns the error named op
Returns(p, op) == /\ ret' = [ret EXCEPT ![p] = op]
                  /\ pc' = [pc EXCEPT ![p] = "returned"]

Init ==
    /\ cfg \in [namespaces : NamespaceLists,
                hostname : {"", "box"},
                hostnameOverride : {"", "mini1"},
                cwd : {"", "/work"},
                args : {DefaultArgs},
                argsOverride : OverridePool,
                bundleDir : {"", "/bundle"},
                useCgroups : BOOLEAN]
    /\ env \in [rootfsExists : BOOLEAN]
    /\ pc = [p \in Procs |-> IF p = "parent" THEN "Run" ELSE "none"]
    /\ cp = [p \in Procs |->
               IF p = "parent"
               THEN LET c == NewContainerProcess(cfg, cfg.bundleDir)
                    IN [c EXCEPT !.Hostname = OverrideHostname(@, cfg.hostnameOverride),
                                 !.Args = OverrideArgs(@, cfg.argsOverride),
                                 !.HasManager = cfg.useCgroups]
               ELSE NoCP]
    /\ ret = [p \in Procs |-> "pending"]
    /\ log = [p \in Procs |-> <<>>]
    /\ nsOf = [p \in Procs |-> {}]
    /\ childEnv = [GOMINI_BUNDLE_DIR |-> "", GOMINI_HOSTNAME |-> "",
                   GOMINI_ARGS |-> <<>>, GOMINI_WORKING_DIR |-> ""]
    /\ status = NotStarted
    /\ cgroup = [exists |-> cfg.useCgroups, procs |-> {}]
    /\ codec = CodecIdle
    /\ cli = [pc |-> "idle", argv |-> <<>>, branch |-> "", exit |-> 0]
    /\ cgm = CgmIdle
    /\ nsc = NscIdle
    /\ rc = RcIdle
    /\ cgs = CgsIdle
    /\ ex = ExIdle
    /\ sc = ScIdle

\* a variant of Run that unshares in-process whatever the configuration
Run_AlwaysInProcess ==
    /\ pc["parent"] = "Run"
    /\ pc' = [pc EXCEPT !["parent"] = "unshare"]
    /\ UNCHANGED <<cfg, env, cp, ret, log, nsOf, childEnv, status, cgroup, codec, cli, cgm, nsc, rc, cgs, ex, sc>>

\* Run: the re-exec path when the PID namespace is configured, else in-process
Run ==
    /\ pc["parent"] = "Run"
    /\ pc' = [pc EXCEPT !["parent"] =
                IF ConfigFromSpec(cfg.namespaces).PID THEN "spawn" ELSE "unshare"]
    /\ UNCHANGED <<cfg, env, cp, ret, log, nsOf, childEnv, status, cgroup, codec, cli, cgm, nsc, rc, cgs, ex, sc>>

\* runWithPIDNamespace up to cmd.Start: the pipe, the command with the clone
\* flags of every configured namespace, the four GOMINI_* variables, the spawn
SpawnChild ==
    /\ pc["parent"] = "spawn"
    /\ \E o \in {"pipe_fails", "start_fails", "started"} :
        CASE o = "pipe_fails" ->
               /\ Logged("parent", <<Entry("parent", "pipe", "", FALSE)>>)
               /\ Returns("parent", "create pipe")
               /\ UNCHANGED <<cp, nsOf, childEnv, status>>
          [] o = "start_fails" ->
               /\ Logged("parent", <<Entry("parent", "pipe", "", TRUE),
                                     Entry("parent", "start", "container-init", FALSE)>>)
               /\ Returns("parent", "start container process")
               /\ UNCHANGED <<cp, nsOf, childEnv, status>>
          [] o = "started" ->
               /\ Logged("parent", <<Entry("parent", "pipe", "", TRUE),
                                     Entry("parent", "start", "container-init", TRUE)>>)
               /\ childEnv' = [GOMINI_BUNDLE_DIR |-> cp["parent"].BundleDir,
                               GOMINI_HOSTNAME |-> cp["parent"].Hostname,
                               GOMINI_ARGS |-> Marshal(cp["parent"].Args),
                               GOMINI_WORKING_DIR |-> cp["parent"].WorkingDir]
               /\ nsOf' = [nsOf EXCEPT !["child"] =
                             NamespacesOf(CloneFlags(ConfigFromSpec(cfg.namespaces)))]
               /\ status' = Running
               /\ pc' = [pc EXCEPT !["parent"] =
                                      IF cp["parent"].HasManager THEN "attach" ELSE "wait",
                                   !["child"] = "handle"]
               /\ UNCHANGED <<cp, ret>>
    /\ UNCHANGED <<cfg, env, cgroup, codec, cli, cgm, nsc, rc, cgs, ex, sc>>

\* a variant of AddProcess whose failure makes runWithPIDNamespace return
\* the error without waiting
AddProcess_FailureFatal ==
    /\ pc["parent"] = "attach"
    /\ \E ok \in BOOLEAN :
        /\ ok => cgroup.exists
        /\ Logged("parent", <<Entry("parent", "AddProcess", "child", ok)>>)
        /\ cgroup' = IF ok /\ status = Running
                     THEN [cgroup EXCEPT !.procs = @ \cup {"child"}]
                     ELSE cgroup
        /\ IF ok THEN /\ pc' = [pc EXCEPT !["parent"] = "wait"]
                      /\ UNCHANGED ret
           ELSE Returns("parent", "add process to cgroup")
    /\ UNCHANGED <<cfg, env, cp, nsOf, childEnv, status, codec, cli, cgm, nsc, rc, cgs, ex, sc>>

\* AddProcess: the child's pid is written to cgroup.procs; a failure is a warning
AddProcess ==
    /\ pc["parent"] = "attach"
    /\ \E ok \in BOOLEAN :
        /\ ok => cgroup.exists
        /\ Logged("parent", <<Entry("parent", "AddProcess", "child", ok)>>)
        /\ cgroup' = IF ok /\ status = Running
                     THEN [cgroup EXCEPT !.procs = @ \cup {"child"}]
                     ELSE cgroup
    /\ pc' = [pc EXCEPT !["parent"] = "wait"]
    /\ UNCHANGED <<cfg, env, cp, ret, nsOf, childEnv, status, codec, cli, cgm, nsc, rc, cgs, ex, sc>>

\* a variant of AfterWait that forgets Cleanup on the error branch
AfterWait_SkipOnError(err) ==
    IF cp["parent"].HasManager /\ ~err THEN "cleanup" ELSE "returned"

\* a variant of AfterWait that never cleans up
AfterWait_NoCleanup(err) == "returned"

\* a variant of AfterWait after which the parent runs the initialization
\* sequence itself
AfterWait_InitInParent(err) ==
    IF cp["parent"].HasManager THEN "cleanup" ELSE "hostname"

\* where runWithPIDNamespace goes when cmd.Wait has returned: to Cleanup when
\* a cgroup manager is configured, on the error branch as on the success branch
AfterWait(err) == IF cp["parent"].HasManager THEN "cleanup" ELSE "returned"

\* a variant of Wait that does not block: it returns while the child may
\* still be running
Wait_NoBlock ==
    /\ pc["parent"] = "wait"
    /\ LET err == ~(status.kind = "exited" /\ status.code = 0) IN
        /\ Logged("parent", <<Entry("parent", "wait", "child", ~err)>>)
        /\ ret' = [ret EXCEPT !["parent"] =
                     IF err THEN "wait for container process" ELSE "nil"]
        /\ pc' = [pc EXCEPT !["parent"] =
                    IF cp["parent"].HasManager THEN "cleanup" ELSE "returned"]
    /\ UNCHANGED <<cfg, env, cp, nsOf, childEnv, status, cgroup, codec, cli, cgm, nsc, rc, cgs, ex, sc>>

\* cmd.Wait blocks until the child has exited; it returns nil when the child
\* exited with code 0 and an error (an ExitError) otherwise
Wait ==
    /\ pc["parent"] = "wait"
    /\ status.kind \in {"exited", "signaled"}
    /\ LET err == ~(status.kind = "exited" /\ status.code = 0) IN
        /\ Logged("parent", <<Entry("parent", "wait", "child", ~err)>>)
        /\ ret' = [ret EXCEPT !["parent"] =
                     IF err THEN "wait for container process" ELSE "nil"]
        /\ pc' = [pc EXCEPT !["parent"] = AfterWait(err)]
    /\ UNCHANGED <<cfg, env, cp, nsOf, childEnv, status, cgroup, codec, cli, cgm, nsc, rc, cgs, ex, sc>>

\* Cleanup: os.RemoveAll of the cgroup directory; its failure is ignored on
\* the error branch and a warning on the success branch
Cleanup ==
    /\ pc["parent"] = "cleanup"
    /\ \E ok \in BOOLEAN :
        /\ ok => cgroup.procs = {}
        /\ Logged("parent", <<Entry("parent", "Cleanup", "", ok)>>)
        /\ cgroup' = IF ok THEN [cgroup EXCEPT !.exists = FALSE] ELSE cgroup
    /\ pc' = [pc EXCEPT !["parent"] = "returned"]
    /\ UNCHANGED <<cfg, env, cp, ret, nsOf, childEnv, status, codec, cli, cgm, nsc, rc, cgs, ex, sc>>

\* runWithNamespaces: CreateNamespaces unshares in the calling process, a
\* no-op when the flags are zero, then the initialization sequence runs
CreateNamespaces ==
    /\ pc["parent"] = "unshare"
    /\ LET flags == CloneFlags(ConfigFromSpec(cfg.namespaces)) IN
        IF flags = 0
        THEN /\ pc' = [pc EXCEPT !["parent"] = "hostname"]
             /\ UNCHANGED <<ret, log, nsOf>>
        ELSE \E ok \in BOOLEAN :
              /\ Logged("parent", <<Entry("parent", "unshare", "", ok)>>)
              /\ IF ok
                 THEN /\ nsOf' = [nsOf EXCEPT !["parent"] = NamespacesOf(flags)]
                      /\ pc' = [pc EXCEPT !["parent"] = "hostname"]
                      /\ UNCHANGED ret
                 ELSE /\ Returns("parent", "create namespaces")
                      /\ UNCHANGED nsOf
    /\ UNCHANGED <<cfg, env, cp, childEnv, status, cgroup, codec, cli, cgm, nsc, rc, cgs, ex, sc>>

\* a variant of HandleContainerInit that loads the configuration before it
\* looks at the bundle directory
HandleContainerInit_LoadFirst ==
    /\ pc["child"] = "handle"
    /\ \E loaded \in BOOLEAN :
        /\ childEnv.GOMINI_BUNDLE_DIR = "" => ~loaded
        /\ Logged("child", <<Entry("child", "LoadConfig",
                                   childEnv.GOMINI_BUNDLE_DIR, loaded)>>)
        /\ IF childEnv.GOMINI_BUNDLE_DIR = ""
           THEN /\ Returns("child", "container init")
                /\ UNCHANGED cp
           ELSE IF ~loaded
           THEN /\ Returns("child", "load config in init")
                /\ UNCHANGED cp
           ELSE LET c == NewContainerProcess(cfg, childEnv.GOMINI_BUNDLE_DIR)
                    u == IF childEnv.GOMINI_ARGS # <<>>
                         THEN Unmarshal(childEnv.GOMINI_ARGS)
                         ELSE [ok |-> TRUE, val |-> <<>>]
                IN IF ~u.ok
                   THEN /\ Returns("child", "unmarshal args")
                        /\ UNCHANGED cp
                   ELSE /\ cp' = [cp EXCEPT !["child"] =
                                    [c EXCEPT
                                       !.Hostname = OverrideHostname(@,
                                                       childEnv.GOMINI_HOSTNAME),
                                       !.Args = OverrideArgs(@, u.val),
                                       !.WorkingDir =
                                          IF childEnv.GOMINI_WORKING_DIR # ""
                                          THEN childEnv.GOMINI_WORKING_DIR
                                          ELSE @]]
                        /\ pc' = [pc EXCEPT !["child"] = "hostname"]
                        /\ UNCHANGED ret
    /\ UNCHANGED <<cfg, env, nsOf, childEnv, status, cgroup, codec, cli, cgm, nsc, rc, cgs, ex, sc>>

\* HandleContainerInit up to initContainer: the state is rebuilt from the
\* environment, the bundle is reloaded, the overrides are applied
HandleContainerInit ==
    /\ pc["child"] = "handle"
    /\ IF childEnv.GOMINI_BUNDLE_DIR = ""
       THEN /\ Returns("child", "container init")
            /\ UNCHANGED <<cp, log>>
       ELSE \E loaded \in BOOLEAN :
             /\ Logged("child", <<Entry("child", "LoadConfig",
                                        childEnv.GOMINI_BUNDLE_DIR, loaded)>>)
             /\ IF ~loaded
                THEN /\ Returns("child", "load config in init")
                     /\ UNCHANGED cp
                ELSE LET c == NewContainerProcess(cfg, childEnv.GOMINI_BUNDLE_DIR)
                         u == IF childEnv.GOMINI_ARGS # <<>>
                              THEN Unmarshal(childEnv.GOMINI_ARGS)
                              ELSE [ok |-> TRUE, val |-> <<>>]
                     IN IF ~u.ok
                        THEN /\ Returns("child", "unmarshal args")
                             /\ UNCHANGED cp
                        ELSE /\ cp' = [cp EXCEPT !["child"] =
                                         [c EXCEPT
                                            !.Hostname = OverrideHostname(@,
                                                            childEnv.GOMINI_HOSTNAME),
                                            !.Args = OverrideArgs(@, u.val),
                                            !.WorkingDir =
                                               IF childEnv.GOMINI_WORKING_DIR # ""
                                               THEN childEnv.GOMINI_WORKING_DIR
                                               ELSE @]]
                             /\ pc' = [pc EXCEPT !["child"] = "hostname"]
                             /\ UNCHANGED ret
    /\ UNCHANGED <<cfg, env, nsOf, childEnv, status, cgroup, codec, cli, cgm, nsc, rc, cgs, ex, sc>>

----------------------------------------------------------------------------
(* The initialization sequence (initContainer), run by the parent on the   *)
(* in-process path and by the child on the re-exec path                    *)

\* a variant of SetHostname that tries again when sethostname failed
SetHostname_RetryOnFailure(p) ==
    /\ pc[p] = "hostname"
    /\ IF cp[p].Hostname = ""
       THEN /\ pc' = [pc EXCEPT ![p] = "prepare"]
            /\ UNCHANGED <<ret, log>>
       ELSE \E ok \in BOOLEAN :
             /\ Logged(p, <<Entry(p, "sethostname", cp[p].Hostname, ok)>>)
             /\ pc' = [pc EXCEPT ![p] = IF ok THEN "prepare" ELSE "hostname"]
             /\ UNCHANGED ret
    /\ UNCHANGED <<cfg, env, cp, nsOf, childEnv, status, cgroup, codec, cli, cgm, nsc, rc, cgs, ex, sc>>

\* initContainer, first step: ns.SetHostname when a hostname is configured
SetHostname(p) ==
    /\ pc[p] = "hostname"
    /\ IF cp[p].Hostname = ""
       THEN /\ pc' = [pc EXCEPT ![p] = "prepare"]
            /\ UNCHANGED <<ret, log>>
       ELSE \E ok \in BOOLEAN :
             /\ Logged(p, <<Entry(p, "sethostname", cp[p].Hostname, ok)>>)
             /\ IF ok THEN /\ pc' = [pc EXCEPT ![p] = "prepare"]
                           /\ UNCHANGED ret
                ELSE Returns(p, "set hostname")
    /\ UNCHANGED <<cfg, env, cp, nsOf, childEnv, status, cgroup, codec, cli, cgm, nsc, rc, cgs, ex, sc>>

\* a variant of PrepareRootfs that creates .old_root before it looks at the
\* rootfs path
PrepareRootfs_MkdirFirst(p) ==
    /\ pc[p] = "prepare"
    /\ \/ /\ ~env.rootfsExists
          /\ Logged(p, <<Entry(p, "mkdir", ".old_root", TRUE),
                         Entry(p, "stat", "rootfs", FALSE),
                         Entry(p, "PrepareRootfs", "", FALSE),
                         Entry(p, "SwitchRoot", "", FALSE)>>)
          /\ Returns(p, "switch root")
       \/ /\ env.rootfsExists
          /\ Logged(p, <<Entry(p, "mkdir", ".old_root", TRUE),
                         Entry(p, "stat", "rootfs", TRUE),
                         Entry(p, "PrepareRootfs", "", TRUE)>>)
          /\ pc' = [pc EXCEPT ![p] = "pivot"]
          /\ UNCHANGED ret
    /\ UNCHANGED <<cfg, env, cp, nsOf, childEnv, status, cgroup, codec, cli, cgm, nsc, rc, cgs, ex, sc>>

\* SwitchRoot, first step: PrepareRootfs stats the rootfs path and creates
\* the .old_root directory in it
PrepareRootfs(p) ==
    /\ pc[p] = "prepare"
    /\ \/ /\ ~env.rootfsExists
          /\ Logged(p, <<Entry(p, "stat", "rootfs", FALSE),
                         Entry(p, "PrepareRootfs", "", FALSE),
                         Entry(p, "SwitchRoot", "", FALSE)>>)
          /\ Returns(p, "switch root")
       \/ /\ env.rootfsExists
          /\ \E ok \in BOOLEAN :
              IF ok
              THEN /\ Logged(p, <<Entry(p, "stat", "rootfs", TRUE),
                                  Entry(p, "mkdir", ".old_root", TRUE),
                                  Entry(p, "PrepareRootfs", "", TRUE)>>)
                   /\ pc' = [pc EXCEPT ![p] = "pivot"]
                   /\ UNCHANGED ret
              ELSE /\ Logged(p, <<Entry(p, "stat", "rootfs", TRUE),
                                  Entry(p, "mkdir", ".old_root", FALSE),
                                  Entry(p, "PrepareRootfs", "", FALSE),
                                  Entry(p, "SwitchRoot", "", FALSE)>>)
                   /\ Returns(p, "switch root")
    /\ UNCHANGED <<cfg, env, cp, nsOf, childEnv, status, cgroup, codec, cli, cgm, nsc, rc, cgs, ex, sc>>

\* a variant of AfterPivotRoot that falls back to chroot whatever PivotRoot returned
AfterPivotRoot_AlwaysFallback(ok) == "chroot"

\* where SwitchRoot goes when PivotRoot has returned: on to the mounts when
\* it succeeded, to ChrootFallback when it returned an error
AfterPivotRoot(ok) == IF ok THEN "mounts" ELSE "chroot"

\* a variant of PivotRoot that returns an error when the lazy unmount fails,
\* without removing /.old_root
PivotRoot_UnmountFatal(p) ==
    /\ pc[p] = "pivot"
    /\ \E o \in {"pivot_fails", "chdir_fails", "done"}, unmounted, removed \in BOOLEAN :
        /\ o # "done" => unmounted /\ removed
        /\ ~unmounted => removed
        /\ CASE o = "pivot_fails" ->
                  /\ Logged(p, <<Entry(p, "pivot_root", "rootfs", FALSE),
                                 Entry(p, "PivotRoot", "", FALSE)>>)
                  /\ pc' = [pc EXCEPT ![p] = AfterPivotRoot(FALSE)]
             [] o = "chdir_fails" ->
                  /\ Logged(p, <<Entry(p, "pivot_root", "rootfs", TRUE),
                                 Entry(p, "chdir", "/", FALSE),
                                 Entry(p, "PivotRoot", "", FALSE)>>)
                  /\ pc' = [pc EXCEPT ![p] = AfterPivotRoot(FALSE)]
             [] o = "done" /\ ~unmounted ->
                  /\ Logged(p, <<Entry(p, "pivot_root", "rootfs", TRUE),
                                 Entry(p, "chdir", "/", TRUE),
                                 Entry(p, "unmount", "/.old_root", FALSE),
                                 Entry(p, "PivotRoot", "", FALSE)>>)
                  /\ pc' = [pc EXCEPT ![p] = AfterPivotRoot(FALSE)]
             [] o = "done" /\ unmounted ->
                  /\ Logged(p, <<Entry(p, "pivot_root", "rootfs", TRUE),
                                 Entry(p, "chdir", "/", TRUE),
                                 Entry(p, "unmount", "/.old_root", TRUE),
                                 Entry(p, "removeall", "/.old_root", removed),
                                 Entry(p, "PivotRoot", "", TRUE)>>
                               \o (IF AfterPivotRoot(TRUE) = "mounts"
                                   THEN <<Entry(p, "SwitchRoot", "", TRUE)>>
                                   ELSE <<>>))
                  /\ pc' = [pc EXCEPT ![p] = AfterPivotRoot(TRUE)]
    /\ UNCHANGED <<cfg, env, cp, ret, nsOf, childEnv, status, cgroup, codec, cli, cgm, nsc, rc, cgs, ex, sc>>

\* PivotRoot: pivot_root, chdir to the new /, then the lazy unmount and the
\* removal of /.old_root, whose failures are warnings
PivotRoot(p) ==
    /\ pc[p] = "pivot"
    /\ \E o \in {"pivot_fails", "chdir_fails", "done"}, unmounted, removed \in BOOLEAN :
        /\ o # "done" => unmounted /\ removed
        /\ CASE o = "pivot_fails" ->
                  /\ Logged(p, <<Entry(p, "pivot_root", "rootfs", FALSE),
                                 Entry(p, "PivotRoot", "", FALSE)>>)
                  /\ pc' = [pc EXCEPT ![p] = AfterPivotRoot(FALSE)]
             [] o = "chdir_fails" ->
                  /\ Logged(p, <<Entry(p, "pivot_root", "rootfs", TRUE),
                                 Entry(p, "chdir", "/", FALSE),
                                 Entry(p, "PivotRoot", "", FALSE)>>)
                  /\ pc' = [pc EXCEPT ![p] = AfterPivotRoot(FALSE)]
             [] o = "done" ->
                  /\ Logged(p, <<Entry(p, "pivot_root", "rootfs", TRUE),
                                 Entry(p, "chdir", "/", TRUE),
                                 Entry(p, "unmount", "/.old_root", unmounted),
                                 Entry(p, "removeall", "/.old_root", removed),
                                 Entry(p, "PivotRoot", "", TRUE)>>
                               \o (IF AfterPivotRoot(TRUE) = "mounts"
                                   THEN <<Entry(p, "SwitchRoot", "", TRUE)>>
                                   ELSE <<>>))
                  /\ pc' = [pc EXCEPT ![p] = AfterPivotRoot(TRUE)]
    /\ UNCHANGED <<cfg, env, cp, ret, nsOf, childEnv, status, cgroup, codec, cli, cgm, nsc, rc, cgs, ex, sc>>

\* what SwitchRoot returns when ChrootFallback has returned: an error exactly
\* when the fallback failed
SwitchRootFails(chrootOk) == ~chrootOk

\* ChrootFallback: chdir to the rootfs, chroot ".", chdir "/"
ChrootFallback(p) ==
    /\ pc[p] = "chroot"
    /\ \E done \in 0..3 :
        LET steps == <<Entry(p, "chdir", "rootfs", done >= 1),
                       Entry(p, "chroot", ".", done >= 2),
                       Entry(p, "chdir", "/", done >= 3)>>
            issued == SubSeq(steps, 1, IF done = 3 THEN 3 ELSE done + 1)
            ok == done = 3
        IN /\ Logged(p, issued \o <<Entry(p, "ChrootFallback", "", ok),
                                    Entry(p, "SwitchRoot", "", ~SwitchRootFails(ok))>>)
           /\ IF SwitchRootFails(ok)
              THEN Returns(p, "switch root")
              ELSE /\ pc' = [pc EXCEPT ![p] = "mounts"]
                   /\ UNCHANGED ret
    /\ UNCHANGED <<cfg, env, cp, nsOf, childEnv, status, cgroup, codec, cli, cgm, nsc, rc, cgs, ex, sc>>

\* the baseline mounts process p has completed
MountsDone(p) ==
    Cardinality({i \in DOMAIN log[p] : log[p][i].op = "mount" /\ log[p][i].ok})

\* CreateBasicMounts, one createMount per step: the destination directory is
\* created, then mounted; the first failure ends the sequence
CreateMount(p) ==
    /\ pc[p] = "mounts"
    /\ LET dest == BasicMounts[MountsDone(p) + 1] IN
       \E o \in {"mkdir_fails", "mount_fails", "mounted"} :
        CASE o = "mkdir_fails" ->
               /\ Logged(p, <<Entry(p, "mkdir", dest, FALSE),
                              Entry(p, "CreateBasicMounts", dest, FALSE)>>)
               /\ Returns(p, "create basic mounts")
          [] o = "mount_fails" ->
               /\ Logged(p, <<Entry(p, "mkdir", dest, TRUE),
                              Entry(p, "mount", dest, FALSE),
                              Entry(p, "CreateBasicMounts", dest, FALSE)>>)
               /\ Returns(p, "create basic mounts")
          [] o = "mounted" ->
               /\ Logged(p, <<Entry(p, "mkdir", dest, TRUE),
                              Entry(p, "mount", dest, TRUE)>>
                            \o (IF MountsDone(p) + 1 = Len(BasicMounts)
                                THEN <<Entry(p, "CreateBasicMounts", "", TRUE)>>
                                ELSE <<>>))
               /\ pc' = [pc EXCEPT ![p] =
                           IF MountsDone(p) + 1 = Len(BasicMounts)
                           THEN "workdir" ELSE "mounts"]
               /\ UNCHANGED ret
    /\ UNCHANGED <<cfg, env, cp, nsOf, childEnv, status, cgroup, codec, cli, cgm, nsc, rc, cgs, ex, sc>>

\* a variant of ChangeWorkingDir that ignores the error of os.Chdir
ChangeWorkingDir_ErrorIgnored(p) ==
    /\ pc[p] = "workdir"
    /\ IF cp[p].WorkingDir = ""
       THEN UNCHANGED log
       ELSE \E ok \in BOOLEAN :
             Logged(p, <<Entry(p, "chdir", cp[p].WorkingDir, ok)>>)
    /\ pc' = [pc EXCEPT ![p] = "exec"]
    /\ UNCHANGED <<cfg, env, cp, ret, nsOf, childEnv, status, cgroup, codec, cli, cgm, nsc, rc, cgs, ex, sc>>

\* initContainer: os.Chdir to the working directory when one is set
ChangeWorkingDir(p) ==
    /\ pc[p] = "workdir"
    /\ IF cp[p].WorkingDir = ""
       THEN /\ pc' = [pc EXCEPT ![p] = "exec"]
            /\ UNCHANGED <<ret, log>>
       ELSE \E ok \in BOOLEAN :
             /\ Logged(p, <<Entry(p, "chdir", cp[p].WorkingDir, ok)>>)
             /\ IF ok THEN /\ pc' = [pc EXCEPT ![p] = "exec"]
                           /\ UNCHANGED ret
                ELSE Returns(p, "change working directory")
    /\ UNCHANGED <<cfg, env, cp, nsOf, childEnv, status, cgroup, codec, cli, cgm, nsc, rc, cgs, ex, sc>>

\* execProcess: syscall.Exec of Args[0]; success replaces the process image
\* and never returns
ExecProcess(p) ==
    /\ pc[p] = "exec"
    /\ IF Len(cp[p].Args) = 0
       THEN /\ Returns(p, "exec process")
            /\ UNCHANGED log
       ELSE \E ok \in BOOLEAN :
             /\ Logged(p, <<Entry(p, "exec", "target", ok)>>)
             /\ IF ok THEN /\ pc' = [pc EXCEPT ![p] = "target"]
                           /\ UNCHANGED ret
                ELSE Returns(p, "exec process")
    /\ UNCHANGED <<cfg, env, cp, nsOf, childEnv, status, cgroup, codec, cli, cgm, nsc, rc, cgs, ex, sc>>

----------------------------------------------------------------------------
(* The end of the child process *)

\* the exit code of the runtime when its entry point returned this result:
\* main exits 1 on an error
ExitCodeOf(result) == IF result = "nil" THEN 0 ELSE 1

\* HandleContainerInit returned an error: the child process exits with it
ChildFails ==
    /\ pc["child"] = "returned"
    /\ status' = Exited(ExitCodeOf(ret["child"]))
    /\ pc' = [pc EXCEPT !["child"] = "exited"]
    /\ cgroup' = [cgroup EXCEPT !.procs = @ \ {"child"}]
    /\ UNCHANGED <<cfg, env, cp, ret, log, nsOf, childEnv, codec, cli, cgm, nsc, rc, cgs, ex, sc>>

\* the target binary, running as the child, exits or is killed by a signal
TargetEnds ==
    /\ pc["child"] = "target"
    /\ \/ \E c \in ExitCodes : status' = Exited(c)
       \/ \E sig \in Signals : status' = Signaled(sig)
    /\ pc' = [pc EXCEPT !["child"] = "exited"]
    /\ cgroup' = [cgroup EXCEPT !.procs = @ \ {"child"}]
    /\ UNCHANGED <<cfg, env, cp, ret, log, nsOf, childEnv, codec, cli, cgm, nsc, rc, cgs, ex, sc>>

Next ==
    \/ Run
    \/ SpawnChild
    \/ AddProcess
    \/ Wait
    \/ Cleanup
    \/ CreateNamespaces
    \/ HandleContainerInit
    \/ \E p \in Procs : SetHostname(p)
    \/ \E p \in Procs : PrepareRootfs(p)
    \/ \E p \in Procs : PivotRoot(p)
    \/ \E p \in Procs : ChrootFallback(p)
    \/ \E p \in Procs : CreateMount(p)
    \/ \E p \in Procs : ChangeWorkingDir(p)
    \/ \E p \in Procs : ExecProcess(p)
    \/ ChildFails
    \/ TargetEnds

Spec == Init /\ [][Next]_vars

----------------------------------------------------------------------------
(* SpecArgs and SpecMain: their initial states *)

CliIdle == [pc |-> "idle", argv |-> <<>>, branch |-> "", exit |-> 0]

\* no process of the orchestrator runs
ProcsIdle ==
    /\ cfg = [namespaces |-> <<>>, hostname |-> "", hostnameOverride |-> "",
              cwd |-> "", args |-> DefaultArgs, argsOverride |-> <<>>,
              bundleDir |-> "", useCgroups |-> FALSE]
    /\ env = [rootfsExists |-> FALSE]
    /\ pc = [p \in Procs |-> "none"]
    /\ cp = [p \in Procs |-> NoCP]
    /\ ret = [p \in Procs |-> "pending"]
    /\ log = [p \in Procs |-> <<>>]
    /\ nsOf = [p \in Procs |-> {}]
    /\ childEnv = [GOMINI_BUNDLE_DIR |-> "", GOMINI_HOSTNAME |-> "",
                   GOMINI_ARGS |-> <<>>, GOMINI_WORKING_DIR |-> ""]
    /\ status = NotStarted
    /\ cgroup = [exists |-> FALSE, procs |-> {}]

InitArgs ==
    /\ ProcsIdle
    /\ cli = CliIdle
    /\ cgm = CgmIdle
    /\ nsc = NscIdle
    /\ rc = RcIdle
    /\ cgs = CgsIdle
    /\ ex = ExIdle
    /\ sc = ScIdle
    /\ \E a \in ArgLists : codec = [CodecIdle EXCEPT !.pc = "encode", !.args = a]

SpecArgs == InitArgs /\ [][NextArgs]_vars

----------------------------------------------------------------------------
(* The flags of runCommand (package flag). A command-line argument is a    *)
(* sequence of tokens: "-" one dash, "=" the equals sign, " " a space, any  *)
(* other token a run of characters holding none of them.                    *)

\* the flags runCommand defines that take a value, and those that are boolean
ValueFlags == {"bundle", "hostname", "cpu", "mem", "pids", "net", "cmd"}

BoolFlags == {"verbose"}

\* the index of the first "=" of the flag name, 0 when it has none
EqualsAt(name) ==
    LET S == {i \in DOMAIN name : name[i] = "="}
    IN IF S = {} THEN 0 ELSE CHOOSE i \in S : \A j \in S : i <= j

\* flag.FlagSet.Parse from args[i] on, cmd being the value of --cmd so far:
\* the first argument that is no flag, or the one after "--", starts the
\* positional arguments; a flag that is not defined, has no name, or lacks
\* its value is an error, one named h or help being the request for help
RECURSIVE ParseFlags(_, _, _)
ParseFlags(args, i, cmd) ==
    IF i > Len(args) THEN [ok |-> TRUE, help |-> FALSE, cmd |-> cmd, rest |-> <<>>]
    ELSE LET a == args[i] IN
         IF Len(a) < 2 \/ a[1] # "-"
         THEN [ok |-> TRUE, help |-> FALSE, cmd |-> cmd,
               rest |-> SubSeq(args, i, Len(args))]
         ELSE IF a = <<"-", "-">>
         THEN [ok |-> TRUE, help |-> FALSE, cmd |-> cmd,
               rest |-> SubSeq(args, i + 1, Len(args))]
         ELSE LET minuses == IF a[2] = "-" THEN 2 ELSE 1
                  full == SubSeq(a, minuses + 1, Len(a))
                  eq == EqualsAt(full)
                  name == IF eq = 0 THEN full ELSE SubSeq(full, 1, eq - 1)
                  hasValue == eq # 0
                  value == IF eq = 0 THEN <<>> ELSE SubSeq(full, eq + 1, Len(full))
              IN IF full = <<>> \/ full[1] \in {"-", "="} \/ Len(name) # 1
                 THEN [ok |-> FALSE, help |-> FALSE, cmd |-> cmd, rest |-> <<>>]
                 ELSE IF name[1] \in BoolFlags
                 THEN ParseFlags(args, i + 1, cmd)
                 ELSE IF name[1] \notin ValueFlags
                 THEN [ok |-> FALSE, help |-> name[1] \in {"h", "help"},
                       cmd |-> cmd, rest |-> <<>>]
                 ELSE IF hasValue
                 THEN ParseFlags(args, i + 1, IF name[1] = "cmd" THEN value ELSE cmd)
                 ELSE IF i + 1 > Len(args)
                 THEN [ok |-> FALSE, help |-> FALSE, cmd |-> cmd, rest |-> <<>>]
                 ELSE ParseFlags(args, i + 2,
                                 IF name[1] = "cmd" THEN args[i + 1] ELSE cmd)

\* flag.ExitOnError: the exit code of the process when Parse fails: 0 when
\* help was asked for, 2 for any other error
ParseExitCode(p) == IF p.help THEN 0 ELSE 2

----------------------------------------------------------------------------
(* SpecMain: main on one command line *)

\* the words the command line of SpecMain is made of
Words == {"run", "version", "--version", "-v", "help", "--help", "-h",
          "container-init", "bogus"}

\* main: the branch taken on os.Args, argv being os.Args without the program name
Dispatch(argv) ==
    IF Len(argv) < 1 THEN "usage"
    ELSE CASE argv[1] = "run" -> "run"
           [] argv[1] \in {"version", "--version", "-v"} -> "version"
           [] argv[1] \in {"help", "--help", "-h"} -> "help"
           [] OTHER -> "unknown"

\* the tokens of a word of the command line
WordTokens(w) ==
    CASE w = "--version" -> <<"-", "-", "version">>
      [] w = "-v" -> <<"-", "v">>
      [] w = "--help" -> <<"-", "-", "help">>
      [] w = "-h" -> <<"-", "h">>
      [] OTHER -> <<w>>

\* main, whole: the dispatch and the exit code of the process; runCommand
\* exits as the flag parser says when the flags are in error, and 1 when the
\* bundle's configuration cannot be loaded
Main ==
    /\ cli.pc = "start"
    /\ \E loaded \in BOOLEAN :
        LET b == Dispatch(cli.argv)
            p == ParseFlags([i \in 1..(Len(cli.argv) - 1) |-> WordTokens(cli.argv[i + 1])],
                            1, <<>>)
        IN
        cli' = [cli EXCEPT !.pc = "done",
                           !.branch = b,
                           !.exit = CASE b \in {"usage", "unknown"} -> 1
                                      [] b = "run" -> IF ~p.ok THEN ParseExitCode(p)
                                                      ELSE IF loaded THEN 0 ELSE 1
                                      [] OTHER -> 0]
    /\ UNCHANGED <<procVars, codec, cgm, nsc, rc, cgs, ex, sc>>

NextMain == Main

InitMain ==
    /\ ProcsIdle
    /\ codec = CodecIdle
    /\ cgm = CgmIdle
    /\ nsc = NscIdle
    /\ rc = RcIdle
    /\ cgs = CgsIdle
    /\ ex = ExIdle
    /\ sc = ScIdle
    /\ \E a \in SeqsUpTo(Words, MaxArgv) : cli = [CliIdle EXCEPT !.pc = "start", !.argv = a]

SpecMain == InitMain /\ [][NextMain]_vars

----------------------------------------------------------------------------
(* Paths (path/filepath as package cg uses it). A path is a sequence of     *)
(* tokens: "/" is the separator, "." one dot, any other token a run of      *)
(* characters holding neither.                                              *)

\* the runs of tokens between the slashes of w, the empty ones included
RECURSIVE Segments(_, _, _, _)
Segments(w, i, cur, acc) ==
    IF i > Len(w) THEN Append(acc, cur)
    ELSE IF w[i] = "/" THEN Segments(w, i + 1, <<>>, Append(acc, cur))
    ELSE Segments(w, i + 1, Append(cur, w[i]), acc)

\* the segments joined by single slashes
RECURSIVE JoinSegments(_)
JoinSegments(segs) ==
    IF segs = <<>> THEN <<>>
    ELSE IF Len(segs) = 1 THEN segs[1]
    ELSE segs[1] \o <<"/">> \o JoinSegments(Tail(segs))

\* filepath.Clean, on the segments left to process and the ones kept: empty
\* and "." segments go, ".." removes the segment before it, or goes itself at
\* the root, or stays at the front of a relative path
RECURSIVE CleanSegments(_, _, _)
CleanSegments(segs, kept, rooted) ==
    IF segs = <<>> THEN kept
    ELSE LET sg == Head(segs) IN
         IF sg = <<>> \/ sg = <<".">>
         THEN CleanSegments(Tail(segs), kept, rooted)
         ELSE IF sg = <<".", ".">>
         THEN IF kept # <<>> /\ kept[Len(kept)] # <<".", ".">>
              THEN CleanSegments(Tail(segs), SubSeq(kept, 1, Len(kept) - 1), rooted)
              ELSE IF rooted THEN CleanSegments(Tail(segs), kept, rooted)
              ELSE CleanSegments(Tail(segs), Append(kept, sg), rooted)
         ELSE CleanSegments(Tail(segs), Append(kept, sg), rooted)

\* filepath.Clean: the shortest path naming the same file; "." for the empty path
Clean(w) ==
    IF w = <<>> THEN <<".">>
    ELSE LET rooted == w[1] = "/"
             kept == CleanSegments(Segments(w, 1, <<>>, <<>>), <<>>, rooted)
         IN IF rooted THEN <<"/">> \o JoinSegments(kept)
            ELSE IF kept = <<>> THEN <<".">>
            ELSE JoinSegments(kept)

\* filepath.Join: the non-empty elements joined by slashes, then cleaned; the
\* empty string when there is none
Join(elems) ==
    LET ne == SelectSeq(elems, LAMBDA e : e # <<>>)
    IN IF ne = <<>> THEN <<>> ELSE Clean(JoinSegments(ne))

\* filepath.Dir: the path without its last element, cleaned
Dir(w) ==
    LET S == {i \in DOMAIN w : w[i] = "/"}
        last == IF S = {} THEN 0 ELSE CHOOSE i \in S : \A j \in S : j <= i
    IN Clean(SubSeq(w, 1, last))

----------------------------------------------------------------------------
(* SpecCg: one cgroup manager (package cg), from NewCgroupManager to       *)
(* GetStats, and the files of its cgroup directory                         *)

defaultCPUPeriod == 100000

\* the container ids a caller passes, as paths: "abc123", the empty id,
\* "..", "a/b" and "../x"
ContainerIDs ==
    { <<"abc123">>, <<>>, <<".", ".">>, <<"a", "/", "b">>, <<".", ".", "/", "x">> }

\* the mount points DetectCgroupV2MountPoint finds: the first common path, or
\* the one of a cgroup2 line of /proc/mounts
MountPoints ==
    { <<"/", "sys", "/", "fs", "/", "cgroup">>, <<"/", "mnt", "/", "cg2">> }

\* what cgroup.controllers of the mount point lists
ControllerLists == { <<"cpu", "memory", "pids">>, <<"memory", "io">>, <<"io">> }

\* the values of one field of ResourceLimits
LimitValues == -1..MaxLimit

ResourceLimits ==
    [CPUQuota : LimitValues, CPUPeriod : LimitValues,
     Memory : LimitValues, Pids : LimitValues]

\* the content of a limit file: what the kernel put there ("max") until a
\* write replaces it by one number, or two for cpu.max
KernelDefault == [set |-> FALSE, v1 |-> 0, v2 |-> 0]

LimitFiles == {"cpu.max", "memory.max", "pids.max"}

\* one operation on the file system: op on the file named name of the
\* directory dir, val what is written
FsOp(op, dir, name, val, ok) ==
    [op |-> op, dir |-> dir, name |-> name, val |-> val, ok |-> ok]

NoStats == [CPUUsage |-> 0, MemoryUsage |-> 0, PidsCount |-> 0]

NoLimits == [CPUQuota |-> 0, CPUPeriod |-> 0, Memory |-> 0, Pids |-> 0]

\* the state before NewCgroupManager is called for id
CgmStart(id) ==
    [pc |-> "new", containerID |-> id, mount |-> <<>>, CgroupPath |-> <<>>,
     Controllers |-> <<>>, err |-> "", exists |-> FALSE,
     files |-> [f \in LimitFiles |-> KernelDefault],
     ops |-> <<>>, limits |-> NoLimits, stats |-> NoStats, statsErr |-> FALSE,
     read |-> <<>>]

\* NewCgroupManager: the mount point is detected, the path is the mount
\* point, "gomini" and the id joined, the controllers are read
NewCgroupManager ==
    /\ cgm.pc = "new"
    /\ \/ cgm' = [cgm EXCEPT !.pc = "done", !.err = "detect cgroup v2 mount point"]
       \/ \E m \in MountPoints :
            \/ cgm' = [cgm EXCEPT !.pc = "done", !.mount = m,
                                  !.err = "get available controllers"]
            \/ \E cs \in ControllerLists :
                 cgm' = [cgm EXCEPT !.pc = "setup", !.mount = m,
                                    !.CgroupPath = Join(<<m, <<"gomini">>, cgm.containerID>>),
                                    !.Controllers = cs]
    /\ UNCHANGED <<procVars, codec, cli, nsc, rc, cgs, ex, sc>>

\* contains: the slice holds the item
contains(slice, item) == \E i \in DOMAIN slice : slice[i] = item

\* "+"+controller: the token that enables a controller
EnableToken(controller) ==
    CASE controller = "cpu" -> "+cpu"
      [] controller = "memory" -> "+memory"
      [] controller = "pids" -> "+pids"

\* a variant of EnabledControllers that asks for the three controllers
\* whatever cgroup.controllers lists
EnabledControllers_AllRequired(controllers) == <<"+cpu", "+memory", "+pids">>

\* Setup: the tokens written to cgroup.subtree_control of the parent group:
\* +cpu, +memory, +pids, each when the controller is available
EnabledControllers(controllers) ==
    LET available == SelectSeq(<<"cpu", "memory", "pids">>,
                               LAMBDA c : contains(controllers, c))
    IN [i \in DOMAIN available |-> EnableToken(available[i])]

\* Setup: MkdirAll of the cgroup directory, then the controllers are enabled
\* in the parent group, a failure there being a warning
Setup ==
    /\ cgm.pc = "setup"
    /\ \/ cgm' = [cgm EXCEPT !.pc = "done", !.err = "create cgroup directory",
                             !.ops = Append(@, FsOp("mkdirall", cgm.CgroupPath, "", <<>>, FALSE))]
       \/ \E wrote \in BOOLEAN :
            LET enabled == EnabledControllers(cgm.Controllers)
                mk == FsOp("mkdirall", cgm.CgroupPath, "", <<>>, TRUE)
                wr == FsOp("write", Dir(cgm.CgroupPath), "cgroup.subtree_control",
                           enabled, wrote)
            IN /\ Len(enabled) = 0 => wrote
               /\ cgm' = [cgm EXCEPT !.pc = "limits", !.exists = TRUE,
                                     !.ops = @ \o (IF Len(enabled) > 0
                                                   THEN <<mk, wr>> ELSE <<mk>>)]
    /\ UNCHANGED <<procVars, codec, cli, nsc, rc, cgs, ex, sc>>

\* a variant of LimitWrites that also writes a limit whose field is zero
LimitWrites_ZeroWritten(l) ==
      (IF l.CPUQuota >= 0
       THEN << [name |-> "cpu.max", err |-> "set CPU limit",
                val |-> [set |-> TRUE, v1 |-> l.CPUQuota,
                         v2 |-> IF l.CPUPeriod = 0 THEN defaultCPUPeriod
                                ELSE l.CPUPeriod]] >>
       ELSE <<>>)
   \o (IF l.Memory >= 0
       THEN << [name |-> "memory.max", err |-> "set memory limit",
                val |-> [set |-> TRUE, v1 |-> l.Memory, v2 |-> 0]] >>
       ELSE <<>>)
   \o (IF l.Pids >= 0
       THEN << [name |-> "pids.max", err |-> "set pids limit",
                val |-> [set |-> TRUE, v1 |-> l.Pids, v2 |-> 0]] >>
       ELSE <<>>)

\* a variant of LimitWrites that sets the memory limit before the CPU limit
LimitWrites_MemoryFirst(l) ==
      (IF l.Memory > 0
       THEN << [name |-> "memory.max", err |-> "set memory limit",
                val |-> [set |-> TRUE, v1 |-> l.Memory, v2 |-> 0]] >>
       ELSE <<>>)
   \o (IF l.CPUQuota > 0
       THEN << [name |-> "cpu.max", err |-> "set CPU limit",
                val |-> [set |-> TRUE, v1 |-> l.CPUQuota,
                         v2 |-> IF l.CPUPeriod = 0 THEN defaultCPUPeriod
                                ELSE l.CPUPeriod]] >>
       ELSE <<>>)
   \o (IF l.Pids > 0
       THEN << [name |-> "pids.max", err |-> "set pids limit",
                val |-> [set |-> TRUE, v1 |-> l.Pids, v2 |-> 0]] >>
       ELSE <<>>)

\* ApplyLimits: the writes it attempts, in order: cpu.max with the quota and
\* the period (the default period for 0) when the quota is positive,
\* memory.max when the memory limit is positive, pids.max when the pids limit is
LimitWrites(l) ==
      (IF l.CPUQuota > 0
       THEN << [name |-> "cpu.max", err |-> "set CPU limit",
                val |-> [set |-> TRUE, v1 |-> l.CPUQuota,
                         v2 |-> IF l.CPUPeriod = 0 THEN defaultCPUPeriod
                                ELSE l.CPUPeriod]] >>
       ELSE <<>>)
   \o (IF l.Memory > 0
       THEN << [name |-> "memory.max", err |-> "set memory limit",
                val |-> [set |-> TRUE, v1 |-> l.Memory, v2 |-> 0]] >>
       ELSE <<>>)
   \o (IF l.Pids > 0
       THEN << [name |-> "pids.max", err |-> "set pids limit",
                val |-> [set |-> TRUE, v1 |-> l.Pids, v2 |-> 0]] >>
       ELSE <<>>)

\* ApplyLimits: the writes are made one after the other; the first that
\* fails ends the call with its error
ApplyLimits ==
    /\ cgm.pc = "limits"
    /\ \E l \in ResourceLimits :
        LET ws == LimitWrites(l) IN
        \E failing \in 0..Len(ws) :
            LET done == IF failing = 0 THEN Len(ws) ELSE failing - 1
                issued == [i \in 1..(IF failing = 0 THEN Len(ws) ELSE failing) |->
                             FsOp("write", cgm.CgroupPath, ws[i].name, ws[i].val,
                                  i # failing)]
            IN cgm' = [cgm EXCEPT
                         !.pc = IF failing = 0 THEN "stats" ELSE "done",
                         !.limits = l,
                         !.err = IF failing = 0 THEN "" ELSE ws[failing].err,
                         !.ops = @ \o issued,
                         !.files = [f \in LimitFiles |->
                                      IF \E i \in 1..done : ws[i].name = f
                                      THEN (CHOOSE w \in {ws[i] : i \in 1..done} :
                                               w.name = f).val
                                      ELSE @[f]]]
    /\ UNCHANGED <<procVars, codec, cli, nsc, rc, cgs, ex, sc>>

\* the decimal digits and the value of each
Digits == <<"0", "1", "2", "3", "4", "5", "6", "7", "8", "9">>

DigitValue(c) == (CHOOSE d \in DOMAIN Digits : Digits[d] = c) - 1

\* the number the digits of s from i on stand for, acc being the value so far
RECURSIVE ParseDigits(_, _, _)
ParseDigits(s, i, acc) ==
    IF i > Len(s) THEN [ok |-> TRUE, val |-> acc]
    ELSE IF \E d \in DOMAIN Digits : Digits[d] = s[i]
         THEN ParseDigits(s, i + 1, 10 * acc + DigitValue(s[i]))
    ELSE [ok |-> FALSE, val |-> 0]

\* strconv.ParseInt in base 10 (and strconv.Atoi): an optional sign, then one
\* digit at least and digits only; 0 and an error otherwise
ParseInt(s) ==
    IF s = <<>> THEN [ok |-> FALSE, val |-> 0]
    ELSE IF s[1] \in {"+", "-"}
         THEN IF Len(s) = 1 THEN [ok |-> FALSE, val |-> 0]
              ELSE LET r == ParseDigits(s, 2, 0)
                   IN [ok |-> r.ok,
                       val |-> IF r.ok /\ s[1] = "-" THEN 0 - r.val ELSE r.val]
    ELSE ParseDigits(s, 1, 0)

\* strings.TrimSpace: the leading and the trailing white space goes
RECURSIVE TrimSpace(_)
TrimSpace(s) ==
    IF s = <<>> THEN s
    ELSE IF Head(s) \in {" ", "\n"} THEN TrimSpace(Tail(s))
    ELSE IF s[Len(s)] \in {" ", "\n"} THEN TrimSpace(SubSeq(s, 1, Len(s) - 1))
    ELSE s

\* readCPUStat, on the lines of cpu.stat, each the sequence of its fields: the
\* first line that starts with usage_usec, has two fields and a number as the
\* second gives the usage; 0 without an error when there is none
RECURSIVE ParseCPUStat(_)
ParseCPUStat(lines) ==
    IF lines = <<>> THEN [ok |-> TRUE, val |-> 0]
    ELSE LET fields == Head(lines) IN
         IF /\ Len(fields) >= 2
            /\ fields[1] # <<>>
            /\ fields[1][1] = "usage_usec"
            /\ ParseInt(fields[2]).ok
         THEN [ok |-> TRUE, val |-> ParseInt(fields[2]).val]
         ELSE ParseCPUStat(Tail(lines))

\* readCPUStat: an unreadable file is an error
readCPUStat(file) ==
    IF ~file.readable THEN [ok |-> FALSE, val |-> 0] ELSE ParseCPUStat(file.text)

\* readMemoryStat and readPidsStat: the trimmed content of the file parsed
\* as a number; an unreadable file and a content that is no number are errors
readMemoryStat(file) ==
    IF ~file.readable THEN [ok |-> FALSE, val |-> 0] ELSE ParseInt(TrimSpace(file.text))

readPidsStat(file) ==
    IF ~file.readable THEN [ok |-> FALSE, val |-> 0] ELSE ParseInt(TrimSpace(file.text))

\* cpu.stat as the kernel may present it: unreadable; the usage 42 on the
\* first line; no usage_usec line; a usage_usec line without a number
CPUStatFiles ==
    { [readable |-> FALSE, text |-> <<>>, valid |-> FALSE, value |-> 0],
      [readable |-> TRUE,
       text |-> << << <<"usage_usec">>, <<"4", "2">> >>,
                   << <<"user_usec">>, <<"7">> >> >>,
       valid |-> TRUE, value |-> 42],
      [readable |-> TRUE, text |-> << << <<"user_usec">>, <<"7">> >> >>,
       valid |-> FALSE, value |-> 0],
      [readable |-> TRUE, text |-> << << <<"usage_usec">>, <<"x">> >> >>,
       valid |-> FALSE, value |-> 0] }

\* memory.current: unreadable; the usage 90 and a newline; not a number
MemoryCurrentFiles ==
    { [readable |-> FALSE, text |-> <<>>, valid |-> FALSE, value |-> 0],
      [readable |-> TRUE, text |-> <<"9", "0", "\n">>, valid |-> TRUE, value |-> 90],
      [readable |-> TRUE, text |-> <<"m", "a", "x", "\n">>, valid |-> FALSE, value |-> 0] }

\* pids.current: unreadable; the count 3 and a newline; empty
PidsCurrentFiles ==
    { [readable |-> FALSE, text |-> <<>>, valid |-> FALSE, value |-> 0],
      [readable |-> TRUE, text |-> <<"3", "\n">>, valid |-> TRUE, value |-> 3],
      [readable |-> TRUE, text |-> <<"\n">>, valid |-> FALSE, value |-> 0] }

\* a variant of GetStatsResult that gives up at the first read that fails
GetStatsResult_FailFast(cpu, mem, pids) ==
    [stats |-> [CPUUsage |-> IF cpu.ok THEN cpu.val ELSE 0,
                MemoryUsage |-> IF cpu.ok /\ mem.ok THEN mem.val ELSE 0,
                PidsCount |-> IF cpu.ok /\ mem.ok /\ pids.ok THEN pids.val ELSE 0],
     err |-> ~(cpu.ok /\ mem.ok /\ pids.ok)]

\* GetStats: each field is set when its read succeeded and stays zero when
\* it failed, with a warning; the error returned is always nil
GetStatsResult(cpu, mem, pids) ==
    [stats |-> [CPUUsage |-> IF cpu.ok THEN cpu.val ELSE 0,
                MemoryUsage |-> IF mem.ok THEN mem.val ELSE 0,
                PidsCount |-> IF pids.ok THEN pids.val ELSE 0],
     err |-> FALSE]

\* GetStats: the three files are read as the kernel presents them at the call
GetStats ==
    /\ cgm.pc = "stats"
    /\ \E cf \in CPUStatFiles, mf \in MemoryCurrentFiles, pf \in PidsCurrentFiles :
        LET r == GetStatsResult(readCPUStat(cf), readMemoryStat(mf), readPidsStat(pf))
        IN cgm' = [cgm EXCEPT
                     !.pc = "done",
                     !.stats = r.stats,
                     !.statsErr = r.err,
                     !.read = <<cf, mf, pf>>,
                     !.ops = @ \o <<FsOp("read", cgm.CgroupPath, "cpu.stat", <<>>, cf.readable),
                                    FsOp("read", cgm.CgroupPath, "memory.current", <<>>,
                                         mf.readable),
                                    FsOp("read", cgm.CgroupPath, "pids.current", <<>>,
                                         pf.readable)>>]
    /\ UNCHANGED <<procVars, codec, cli, nsc, rc, cgs, ex, sc>>

NextCg == NewCgroupManager \/ Setup \/ ApplyLimits \/ GetStats

InitCg ==
    /\ ProcsIdle
    /\ codec = CodecIdle
    /\ cli = CliIdle
    /\ nsc = NscIdle
    /\ rc = RcIdle
    /\ cgs = CgsIdle
    /\ ex = ExIdle
    /\ sc = ScIdle
    /\ \E id \in ContainerIDs : cgm = CgmStart(id)

SpecCg == InitCg /\ [][NextCg]_vars

----------------------------------------------------------------------------
(* SpecCgs: two containers on one host, each with its own cgroup manager,  *)
(* whose calls interleave (no locking); the directories of the cgroup file *)
(* system they share                                                       *)

Containers == {1, 2}

\* the limits both containers are given: a quota, a memory and a pids limit
PairLimits == [CPUQuota |-> MaxLimit, CPUPeriod |-> 0, Memory |-> MaxLimit,
               Pids |-> MaxLimit]

\* the directory w and the directories above it, the root left out
PathPrefixes(w) ==
    {SubSeq(w, 1, i - 1) : i \in {j \in DOMAIN w : j > 1 /\ w[j] = "/"}} \cup {w}

\* the directory d is root or lies below it
IsUnder(d, root) ==
    \/ d = root
    \/ /\ Len(d) > Len(root)
       /\ SubSeq(d, 1, Len(root)) = root
       /\ d[Len(root) + 1] = "/"

\* one call on the file system made by the manager of container c in its
\* function fn: touched are the directories it created, removed, or wrote a
\* file of
CgsOp(c, fn, op, name, touched, ok) ==
    [c |-> c, fn |-> fn, op |-> op, name |-> name, touched |-> touched, ok |-> ok]

\* both managers as NewCgroupManager returns them, on a host whose cgroup
\* file system is mounted at m and lists the controllers cs
CgsStart(m, cs, ids) ==
    [pc |-> "run", mount |-> m, id |-> ids,
     CgroupPath |-> [c \in Containers |-> Join(<<m, <<"gomini">>, ids[c]>>)],
     Controllers |-> cs,
     step |-> [c \in Containers |-> "setup"],
     dirs |-> PathPrefixes(m),
     ops |-> <<>>]

\* Setup of container c: MkdirAll creates the cgroup directory and the
\* missing directories above it, then the controllers are enabled in the
\* parent directory; a write succeeds only in a directory that exists
SetupOf(c) ==
    /\ cgs.step[c] = "setup"
    /\ LET path == cgs.CgroupPath[c] IN
       \/ cgs' = [cgs EXCEPT !.step[c] = "done",
                             !.ops = Append(@, CgsOp(c, "Setup", "mkdirall", "", {}, FALSE))]
       \/ \E wrote \in BOOLEAN :
            LET created == PathPrefixes(path) \ cgs.dirs
                enabled == EnabledControllers(cgs.Controllers)
                mk == CgsOp(c, "Setup", "mkdirall", "", created, TRUE)
                wr == CgsOp(c, "Setup", "write", "cgroup.subtree_control",
                            {Dir(path)}, wrote)
            IN /\ Len(enabled) = 0 => wrote
               /\ wrote => Dir(path) \in cgs.dirs \cup created
               /\ cgs' = [cgs EXCEPT !.step[c] = "limits",
                                     !.dirs = @ \cup created,
                                     !.ops = @ \o (IF Len(enabled) > 0
                                                   THEN <<mk, wr>> ELSE <<mk>>)]
    /\ UNCHANGED <<procVars, codec, cli, cgm, nsc, rc, ex, sc>>

\* ApplyLimits of container c: the limit files of its cgroup directory are
\* written one after the other until one fails
ApplyLimitsOf(c) ==
    /\ cgs.step[c] = "limits"
    /\ LET path == cgs.CgroupPath[c]
           ws == LimitWrites(PairLimits)
       IN \E failing \in 0..Len(ws) :
            /\ path \notin cgs.dirs => failing = 1
            /\ cgs' = [cgs EXCEPT
                         !.step[c] = IF failing = 0 THEN "attach" ELSE "done",
                         !.ops = @ \o [i \in 1..(IF failing = 0 THEN Len(ws) ELSE failing) |->
                                         CgsOp(c, "ApplyLimits", "write", ws[i].name,
                                               {path}, i # failing)]]
    /\ UNCHANGED <<procVars, codec, cli, cgm, nsc, rc, ex, sc>>

\* AddProcess of container c: the pid is written to cgroup.procs of its
\* cgroup directory; the caller goes on whatever the outcome
AddProcessOf(c) ==
    /\ cgs.step[c] = "attach"
    /\ LET path == cgs.CgroupPath[c] IN
       \E ok \in BOOLEAN :
        /\ ok => path \in cgs.dirs
        /\ cgs' = [cgs EXCEPT
                     !.step[c] = "cleanup",
                     !.ops = Append(@, CgsOp(c, "AddProcess", "write", "cgroup.procs",
                                             {path}, ok))]
    /\ UNCHANGED <<procVars, codec, cli, cgm, nsc, rc, ex, sc>>

\* Cleanup of container c: os.RemoveAll of its cgroup directory removes the
\* directory and every directory below it; when it fails it may have removed
\* the directories below already; a path that does not exist is no error
CleanupOf(c) ==
    /\ cgs.step[c] = "cleanup"
    /\ LET path == cgs.CgroupPath[c]
           tree == {d \in cgs.dirs : IsUnder(d, path)}
       IN \E ok \in BOOLEAN, removed \in {{}, tree \ {path}, tree} :
            /\ ok <=> removed = tree
            /\ cgs' = [cgs EXCEPT
                         !.step[c] = "done",
                         !.dirs = @ \ removed,
                         !.ops = Append(@, CgsOp(c, "Cleanup", "removeall", "",
                                                 removed, ok))]
    /\ UNCHANGED <<procVars, codec, cli, cgm, nsc, rc, ex, sc>>

NextCgs ==
    \/ \E c \in Containers : SetupOf(c)
    \/ \E c \in Containers : ApplyLimitsOf(c)
    \/ \E c \in Containers : AddProcessOf(c)
    \/ \E c \in Containers : CleanupOf(c)

\* two containers whose ids differ, on a host with the memory controller
InitCgs ==
    /\ ProcsIdle
    /\ codec = CodecIdle
    /\ cli = CliIdle
    /\ cgm = CgmIdle
    /\ nsc = NscIdle
    /\ rc = RcIdle
    /\ ex = ExIdle
    /\ sc = ScIdle
    /\ \E m \in MountPoints, ids \in [Containers -> ContainerIDs],
          cs \in {l \in ControllerLists : contains(l, "memory")} :
          /\ \A c, d \in Containers : c # d => ids[c] # ids[d]
          /\ cgs = CgsStart(m, cs, ids)

SpecCgs == InitCgs /\ [][NextCgs]_vars

----------------------------------------------------------------------------
(* SpecNs: one call of CloneFlags or of WaitForChild (package ns)          *)

\* every NamespaceConfig
NamespaceConfigs ==
    [UTS : BOOLEAN, PID : BOOLEAN, Mount : BOOLEAN, IPC : BOOLEAN,
     Net : BOOLEAN, User : BOOLEAN]

\* how a child process can have changed state when wait4 returns: it exited
\* with a code, a signal killed it (with or without a core dump), a signal
\* stopped it, or it was continued
ChildEvents ==
    [kind : {"exited"}, n : 0..MaxWaitCode, core : {FALSE}]
    \cup [kind : {"signaled"}, n : 1..MaxSignal, core : BOOLEAN]
    \cup [kind : {"stopped"}, n : 1..MaxSignal, core : {FALSE}]
    \cup [kind : {"continued"}, n : {0}, core : {FALSE}]

\* the 16-bit wait status the kernel reports for the event
StatusWord(e) ==
    CASE e.kind = "exited" -> e.n * 256
      [] e.kind = "signaled" -> e.n + (IF e.core THEN 128 ELSE 0)
      [] e.kind = "stopped" -> e.n * 256 + 127
      [] e.kind = "continued" -> 65535

\* syscall.WaitStatus: Exited, ExitStatus, Signaled, Signal
WaitExited(w) == w % 128 = 0

WaitExitStatus(w) == (w \div 256) % 256

WaitSignaled(w) == w % 128 # 127 /\ w % 128 # 0

WaitSignal(w) == w % 128

\* a variant of WaitForChildResult that returns the bare signal number
WaitForChildResult_BareSignal(wait4Ok, w) ==
    IF ~wait4Ok THEN [code |-> -1, err |-> "wait for child"]
    ELSE IF WaitExited(w) THEN [code |-> WaitExitStatus(w), err |-> ""]
    ELSE IF WaitSignaled(w) THEN [code |-> WaitSignal(w), err |-> ""]
    ELSE [code |-> -1, err |-> "unexpected child status"]

\* WaitForChild: -1 and an error when wait4 fails; the exit status of a child
\* that exited; 128 + the signal of a child that was signaled; -1 and an
\* error for any other status
WaitForChildResult(wait4Ok, w) ==
    IF ~wait4Ok THEN [code |-> -1, err |-> "wait for child"]
    ELSE IF WaitExited(w) THEN [code |-> WaitExitStatus(w), err |-> ""]
    ELSE IF WaitSignaled(w) THEN [code |-> 128 + WaitSignal(w), err |-> ""]
    ELSE [code |-> -1, err |-> "unexpected child status"]

NoEvent == [kind |-> "none", n |-> 0, core |-> FALSE]

NscStart == [pc |-> "call", fn |-> "", nc |-> NoConfig, flags |-> 0,
             event |-> NoEvent, wait4Ok |-> TRUE, code |-> 0, err |-> "",
             namespaces |-> <<>>, config |-> NoConfig]

\* the type names a configuration lists: the six the runtime knows, and
\* "net", "cgroup", "PID" and the empty name, which it does not
NamespaceNames ==
    {"uts", "pid", "mount", "ipc", "network", "user", "net", "cgroup", "PID", ""}

RECURSIVE ListsOf(_, _)
ListsOf(S, n) ==
    IF n = 0 THEN {<<>>}
    ELSE LET shorter == ListsOf(S, n - 1)
         IN shorter \cup {Append(l, x) : l \in {k \in shorter : Len(k) = n - 1}, x \in S}

\* the lists of type names Run hands to ConfigFromSpec
TypeLists == ListsOf(NamespaceNames, MaxNsTypes)

\* ConfigFromSpec(namespaces)
CallConfigFromSpec ==
    /\ nsc.pc = "call"
    /\ nsc.fn = "ConfigFromSpec"
    /\ nsc' = [nsc EXCEPT !.pc = "done", !.config = ConfigFromSpec(nsc.namespaces)]
    /\ UNCHANGED <<procVars, codec, cli, cgm, rc, cgs, ex, sc>>

\* nc.CloneFlags()
CallCloneFlags ==
    /\ nsc.pc = "call"
    /\ nsc.fn = "CloneFlags"
    /\ nsc' = [nsc EXCEPT !.pc = "done", !.flags = CloneFlags(nsc.nc)]
    /\ UNCHANGED <<procVars, codec, cli, cgm, rc, cgs, ex, sc>>

\* WaitForChild(pid)
WaitForChild ==
    /\ nsc.pc = "call"
    /\ nsc.fn = "WaitForChild"
    /\ LET r == WaitForChildResult(nsc.wait4Ok, StatusWord(nsc.event))
       IN nsc' = [nsc EXCEPT !.pc = "done", !.code = r.code, !.err = r.err]
    /\ UNCHANGED <<procVars, codec, cli, cgm, rc, cgs, ex, sc>>

NextNs == CallCloneFlags \/ WaitForChild \/ CallConfigFromSpec

InitNs ==
    /\ ProcsIdle
    /\ codec = CodecIdle
    /\ cli = CliIdle
    /\ cgm = CgmIdle
    /\ rc = RcIdle
    /\ cgs = CgsIdle
    /\ ex = ExIdle
    /\ sc = ScIdle
    /\ \/ \E nc \in NamespaceConfigs :
            nsc = [NscStart EXCEPT !.fn = "CloneFlags", !.nc = nc]
       \/ \E e \in ChildEvents :
            nsc = [NscStart EXCEPT !.fn = "WaitForChild", !.event = e]
       \/ nsc = [NscStart EXCEPT !.fn = "WaitForChild", !.wait4Ok = FALSE]
       \/ \E l \in TypeLists :
            nsc = [NscStart EXCEPT !.fn = "ConfigFromSpec", !.namespaces = l]

SpecNs == InitNs /\ [][NextNs]_vars

----------------------------------------------------------------------------
(* SpecRun: one call of runCommand                                         *)

\* the arguments a command line after "gomini run" is made of: --cmd,
\* --verbose, --, "/bin/echo hi", /bin/echo, hi, /bin/sh, -c, --cmd=/bin/ls
RunArgPool ==
    { <<"-", "-", "cmd">>, <<"-", "-", "verbose">>, <<"-", "-">>,
      <<"/bin/echo", " ", "hi">>, <<"/bin/echo">>, <<"hi">>, <<"/bin/sh">>,
      <<"-", "c">>, <<"-", "-", "cmd", "=", "/bin/ls">> }

\* the process arguments of the bundles runCommand loads
BundleArgs == { << <<"/bin/true">> >>, << <<"/bin/sh">>, <<"-", "l">> >> }

\* a variant of FinalArgs that lets the bundle's arguments win over the
\* positional ones
FinalArgs_PositionalIgnored(cmd, positionalArgs, configArgs) ==
    IF cmd # <<>> THEN <<cmd>> ELSE configArgs

\* runCommand: the command it settles on: the value of --cmd as the only
\* element when it is not empty, else the positional arguments when there
\* are some, else the process arguments of the bundle
FinalArgs(cmd, positionalArgs, configArgs) ==
    IF cmd # <<>> THEN <<cmd>>
    ELSE IF Len(positionalArgs) > 0 THEN positionalArgs
    ELSE configArgs

RcStart == [pc |-> "call", args |-> <<>>, configArgs |-> <<>>, cmd |-> <<>>,
            positionalArgs |-> <<>>, finalArgs |-> <<>>, exit |-> 0]

\* runCommand, whole: the flags are parsed (an error exits), the bundle is
\* loaded (an error exits 1), the final command is settled and printed
RunCommand ==
    /\ rc.pc = "call"
    /\ LET p == ParseFlags(rc.args, 1, <<>>) IN
        IF ~p.ok
        THEN rc' = [rc EXCEPT !.pc = "done", !.exit = ParseExitCode(p)]
        ELSE \E loaded \in BOOLEAN :
               IF ~loaded
               THEN rc' = [rc EXCEPT !.pc = "done", !.exit = 1, !.cmd = p.cmd,
                                     !.positionalArgs = p.rest]
               ELSE rc' = [rc EXCEPT !.pc = "done", !.exit = 0, !.cmd = p.cmd,
                                     !.positionalArgs = p.rest,
                                     !.finalArgs = FinalArgs(p.cmd, p.rest,
                                                             rc.configArgs)]
    /\ UNCHANGED <<procVars, codec, cli, cgm, nsc, cgs, ex, sc>>

NextRun == RunCommand

InitRun ==
    /\ ProcsIdle
    /\ codec = CodecIdle
    /\ cli = CliIdle
    /\ cgm = CgmIdle
    /\ nsc = NscIdle
    /\ cgs = CgsIdle
    /\ ex = ExIdle
    /\ sc = ScIdle
    /\ \E a \in SeqsUpTo(RunArgPool, MaxRunArgs), c \in BundleArgs :
          rc = [RcStart EXCEPT !.args = a, !.configArgs = c]

SpecRun == InitRun /\ [][NextRun]_vars

----------------------------------------------------------------------------
(* SpecExec: one ContainerProcess from its configuration to execProcess:   *)
(* the environment list of the configuration, as LoadConfig decodes it or  *)
(* as a caller of the package built it, and what the target is exec'd with *)

\* a Go []string: the nil slice, or a slice holding items (none for the
\* empty slice, which is not nil)
NilSlice == [isNil |-> TRUE, items |-> <<>>]

Slice(items) == [isNil |-> FALSE, items |-> items]

\* the environment execProcess supplies when the slice is nil
DefaultEnv == <<"PATH=/usr/local/sbin:/usr/local/bin:/usr/sbin:/usr/bin:/sbin:/bin">>

\* the environment lists a configuration holds
EnvLists ==
    { <<>>, <<"TERM=xterm">>, <<"PATH=/bin">>, <<"PATH=/bin", "TERM=xterm">>,
      <<"TERM=xterm", "PATH=/bin">> }

\* the "env" member of process in config.json: absent, null, or an array
EnvDocs ==
    {[kind |-> "absent", items |-> <<>>], [kind |-> "null", items |-> <<>>]}
    \cup {[kind |-> "array", items |-> l] : l \in EnvLists}

\* json.Unmarshal of the member into the zero Process.Env: absent and null
\* leave the nil slice, an array gives a slice of its elements, which for
\* the empty array is empty and not nil
DecodeStringList(doc) ==
    IF doc.kind = "array" THEN Slice(doc.items) ELSE NilSlice

\* the argument lists of a configuration; the empty one only in a Config a
\* caller built, since validateConfig refuses it
ExecArgLists == { <<>>, <<"/bin/sh">>, <<"/bin/echo", "hi">>, <<"/bin/ls", "-l", "/">> }

ExStart ==
    [pc |-> "idle", envDoc |-> [kind |-> "absent", items |-> <<>>],
     configArgs |-> <<>>, configEnv |-> NilSlice,
     Args |-> <<>>, Env |-> NilSlice,
     attempted |-> FALSE, binary |-> "", argv |-> <<>>, envp |-> <<>>, err |-> ""]

\* LoadConfig: the document is decoded and validated
LoadConfig ==
    /\ ex.pc = "load"
    /\ IF Len(ex.configArgs) = 0
       THEN ex' = [ex EXCEPT !.pc = "done", !.err = "validate config"]
       ELSE ex' = [ex EXCEPT !.pc = "new", !.configEnv = DecodeStringList(ex.envDoc)]
    /\ UNCHANGED <<procVars, codec, cli, cgm, nsc, rc, cgs, sc>>

\* NewContainerProcess: Args and Env are the configuration's
NewProcess ==
    /\ ex.pc = "new"
    /\ ex' = [ex EXCEPT !.pc = "exec", !.Args = ex.configArgs, !.Env = ex.configEnv]
    /\ UNCHANGED <<procVars, codec, cli, cgm, nsc, rc, cgs, sc>>

\* execProcess: the environment is cp.Env, or the default PATH entry when
\* cp.Env is nil
ExecEnv(list) == IF list.isNil THEN DefaultEnv ELSE list.items

\* execProcess: an error when there is no argument, else syscall.Exec of
\* Args[0] with Args and the environment; its success replaces the process
execProcess ==
    /\ ex.pc = "exec"
    /\ IF Len(ex.Args) = 0
       THEN ex' = [ex EXCEPT !.pc = "done", !.err = "exec process"]
       ELSE \E ok \in BOOLEAN :
             ex' = [ex EXCEPT !.pc = IF ok THEN "target" ELSE "done",
                              !.attempted = TRUE,
                              !.binary = ex.Args[1],
                              !.argv = ex.Args,
                              !.envp = ExecEnv(ex.Env),
                              !.err = IF ok THEN "" ELSE "exec process"]
    /\ UNCHANGED <<procVars, codec, cli, cgm, nsc, rc, cgs, sc>>

NextExec == LoadConfig \/ NewProcess \/ execProcess

\* the configuration comes from the config.json of a bundle, or is a Config
\* value built by a caller of the package
InitExec ==
    /\ ProcsIdle
    /\ codec = CodecIdle
    /\ cli = CliIdle
    /\ cgm = CgmIdle
    /\ nsc = NscIdle
    /\ rc = RcIdle
    /\ cgs = CgsIdle
    /\ sc = ScIdle
    /\ \/ \E doc \in EnvDocs, args \in ExecArgLists :
            ex = [ExStart EXCEPT !.pc = "load", !.envDoc = doc, !.configArgs = args]
       \/ \E list \in {NilSlice} \cup {Slice(l) : l \in EnvLists}, args \in ExecArgLists :
            ex = [ExStart EXCEPT !.pc = "new", !.configEnv = list, !.configArgs = args]

SpecExec == InitExec /\ [][NextExec]_vars

----------------------------------------------------------------------------
(* SpecSetup: one ContainerProcess whose caller calls SetupCgroups and     *)
(* then Run; the cgroup directories of the host and what Run does to them  *)

\* the container ids the caller of SetupCgroups passes
SetupIDs == { <<"abc123">>, <<"web">> }

\* a *cg.CgroupManager: nil, or the manager NewCgroupManager returned
NilManager == [isNil |-> TRUE, containerID |-> <<>>, CgroupPath |-> <<>>]

ManagerOf(id, mount) ==
    [isNil |-> FALSE, containerID |-> id,
     CgroupPath |-> Join(<<mount, <<"gomini">>, id>>)]

\* a *cg.ResourceLimits: nil, or a pointer to the limits
NilLimits == [isNil |-> TRUE, v |-> NoLimits]

LimitsPtr(l) == [isNil |-> FALSE, v |-> l]

\* the limits argument of SetupCgroups: nil, or limits with the default period
SetupLimits ==
    {NilLimits} \cup
    { LimitsPtr(l) : l \in { r \in ResourceLimits :
                               /\ r.CPUPeriod = 0 /\ r.CPUQuota >= 0
                               /\ r.Memory >= 0 /\ r.Pids >= 0 } }

\* the controllers of the host of this specification
SetupControllers == <<"cpu", "memory", "pids">>

NoCall ==
    [made |-> FALSE, id |-> <<>>, limits |-> NilLimits, manager |-> NilManager,
     failed |-> "", err |-> "", created |-> FALSE,
     before |-> [CgroupManager |-> NilManager, ResourceLimits |-> NilLimits]]

\* the ContainerProcess as NewContainerProcess returns it, on a host whose
\* cgroup file system is mounted at mount
ScStart(mount) ==
    [pc |-> "setup", mount |-> mount,
     CgroupManager |-> NilManager, ResourceLimits |-> NilLimits,
     dirs |-> {}, attached |-> {}, call |-> NoCall,
     ops |-> <<>>, runOps |-> <<>>, ret |-> ""]

\* SetupCgroups: the error it returns when the named step failed
SetupCgroupsError(failed) ==
    CASE failed = "" -> ""
      [] failed = "NewCgroupManager" -> "create cgroup manager"
      [] failed = "Setup" -> "setup cgroup"
      [] failed = "ApplyLimits" -> "apply cgroup limits"

\* a variant of SetupCgroupsFields that installs the manager and the limits
\* as soon as Setup succeeded, before the limits are applied
SetupCgroupsFields_InstallBeforeLimits(old, mgr, limits, failed) ==
    IF failed \in {"", "ApplyLimits"}
    THEN [CgroupManager |-> mgr, ResourceLimits |-> limits]
    ELSE old

\* SetupCgroups: the two fields of the ContainerProcess after the call: the
\* assignments are the last statements, reached when no step returned early
SetupCgroupsFields(old, mgr, limits, failed) ==
    IF failed = ""
    THEN [CgroupManager |-> mgr, ResourceLimits |-> limits]
    ELSE old

\* SetupCgroups(id, limits): NewCgroupManager, then Setup (MkdirAll of the
\* cgroup directory; enabling the controllers is a warning when it fails),
\* then ApplyLimits when limits is not nil; the first step that fails ends
\* the call: nothing is undone
SetupCgroups ==
    /\ sc.pc = "setup"
    /\ \E id \in SetupIDs, limits \in SetupLimits :
        LET mgr == ManagerOf(id, sc.mount)
            old == [CgroupManager |-> sc.CgroupManager,
                    ResourceLimits |-> sc.ResourceLimits]
            ws == IF limits.isNil THEN <<>> ELSE LimitWrites(limits.v)
            Called(failed, dirs, issued) ==
                LET fields == SetupCgroupsFields(old, mgr, limits, failed) IN
                [sc EXCEPT
                   !.pc = "called",
                   !.CgroupManager = fields.CgroupManager,
                   !.ResourceLimits = fields.ResourceLimits,
                   !.dirs = dirs,
                   !.ops = issued,
                   !.call = [made |-> TRUE, id |-> id, limits |-> limits,
                             manager |-> mgr, failed |-> failed,
                             err |-> SetupCgroupsError(failed),
                             created |-> mgr.CgroupPath \in dirs \ sc.dirs,
                             before |-> old]]
        IN \/ sc' = Called("NewCgroupManager", sc.dirs, <<>>)
           \/ sc' = Called("Setup", sc.dirs,
                           <<FsOp("mkdirall", mgr.CgroupPath, "", <<>>, FALSE)>>)
           \/ \E wrote \in BOOLEAN, failing \in 0..Len(ws) :
                LET mk == FsOp("mkdirall", mgr.CgroupPath, "", <<>>, TRUE)
                    wr == FsOp("write", Dir(mgr.CgroupPath), "cgroup.subtree_control",
                               EnabledControllers(SetupControllers), wrote)
                    writes == [i \in 1..(IF failing = 0 THEN Len(ws) ELSE failing) |->
                                 FsOp("write", mgr.CgroupPath, ws[i].name, ws[i].val,
                                      i # failing)]
                IN sc' = Called(IF failing = 0 THEN "" ELSE "ApplyLimits",
                                sc.dirs \cup {mgr.CgroupPath},
                                <<mk, wr>> \o writes)
    /\ UNCHANGED <<procVars, codec, cli, cgm, nsc, rc, cgs, ex>>

\* Run: without a PID namespace the container is initialised in the calling
\* process and the cgroup manager is not used; with one, the child is started
StartChild ==
    /\ sc.pc = "called"
    /\ \E pidNs \in BOOLEAN, started \in BOOLEAN :
        /\ ~pidNs => started
        /\ sc' = [sc EXCEPT
                    !.pc = IF pidNs /\ started THEN "started" ELSE "done",
                    !.ret = IF ~pidNs THEN "in process"
                            ELSE IF started THEN "" ELSE "start container process"]
    /\ UNCHANGED <<procVars, codec, cli, cgm, nsc, rc, cgs, ex>>

\* runWithPIDNamespace: the child is added to the cgroup when the
\* ContainerProcess has a manager; a failure is a warning
AddChildToCgroup ==
    /\ sc.pc = "started"
    /\ IF sc.CgroupManager.isNil
       THEN sc' = [sc EXCEPT !.pc = "waiting"]
       ELSE \E ok \in BOOLEAN :
             /\ ok => sc.CgroupManager.CgroupPath \in sc.dirs
             /\ sc' = [sc EXCEPT
                         !.pc = "waiting",
                         !.attached = IF ok THEN @ \cup {sc.CgroupManager.CgroupPath}
                                      ELSE @,
                         !.runOps = Append(@, FsOp("write", sc.CgroupManager.CgroupPath,
                                                   "cgroup.procs", <<>>, ok))]
    /\ UNCHANGED <<procVars, codec, cli, cgm, nsc, rc, cgs, ex>>

\* runWithPIDNamespace: after the wait, with an error or without, Cleanup
\* removes the directory of the manager the ContainerProcess has
WaitAndCleanup ==
    /\ sc.pc = "waiting"
    /\ \E waitErr \in BOOLEAN :
        LET r == IF waitErr THEN "wait for container process" ELSE "" IN
        IF sc.CgroupManager.isNil
        THEN sc' = [sc EXCEPT !.pc = "done", !.ret = r]
        ELSE \E ok \in BOOLEAN :
              sc' = [sc EXCEPT
                       !.pc = "done", !.ret = r,
                       !.dirs = IF ok THEN @ \ {sc.CgroupManager.CgroupPath} ELSE @,
                       !.attached = IF ok THEN @ \ {sc.CgroupManager.CgroupPath} ELSE @,
                       !.runOps = Append(@, FsOp("removeall", sc.CgroupManager.CgroupPath,
                                                 "", <<>>, ok))]
    /\ UNCHANGED <<procVars, codec, cli, cgm, nsc, rc, cgs, ex>>

NextSetup == SetupCgroups \/ StartChild \/ AddChildToCgroup \/ WaitAndCleanup

\* the ContainerProcess is new, or an earlier SetupCgroups succeeded on it:
\* its directory is there, or an earlier Run has removed it
InitSetup ==
    /\ ProcsIdle
    /\ codec = CodecIdle
    /\ cli = CliIdle
    /\ cgm = CgmIdle
    /\ nsc = NscIdle
    /\ rc = RcIdle
    /\ cgs = CgsIdle
    /\ ex = ExIdle
    /\ \E mount \in MountPoints :
        \/ sc = ScStart(mount)
        \/ \E id \in SetupIDs, limits \in SetupLimits, removed \in BOOLEAN :
             sc = [ScStart(mount) EXCEPT
                     !.CgroupManager = ManagerOf(id, mount),
                     !.ResourceLimits = limits,
                     !.dirs = IF removed THEN {}
                              ELSE {ManagerOf(id, mount).CgroupPath}]

SpecSetup == InitSetup /\ [][NextSetup]_vars

----------------------------------------------------------------------------
(* The claims *)

\* 128: the base a signal number is added to in the shell convention
SignalBase == 128

\* process p has issued op with this outcome
Did(p, op, ok) == \E i \in DOMAIN log[p] : log[p][i].op = op /\ log[p][i].ok = ok

\* the index of p's first successful op on arg, 0 when there is none
Pos(p, op, arg) ==
    LET S == {i \in DOMAIN log[p] :
                log[p][i].op = op /\ log[p][i].arg = arg /\ log[p][i].ok}
    IN IF S = {} THEN 0 ELSE CHOOSE i \in S : \A j \in S : i <= j

\* the index of p's first op of this name, 0 when there is none
First(p, op) ==
    LET S == {i \in DOMAIN log[p] : log[p][i].op = op}
    IN IF S = {} THEN 0 ELSE CHOOSE i \in S : \A j \in S : i <= j

ChildStarted == Did("parent", "start", TRUE)

\* C1: on the re-exec path the result the runtime reports is the child's
\* exit code when the child exited normally, and 128 + the signal number when
\* a signal terminated it
C1_ExitCodeReported ==
    (pc["parent"] = "returned" /\ First("parent", "wait") > 0)
    => ExitCodeOf(ret["parent"]) =
         (IF status.kind = "exited" THEN status.code ELSE SignalBase + status.code)

\* C2: a process issues mount, pivot_root or chroot only after it has
\* entered a mount namespace of its own (by unshare, or created with the flag)
C2_RootOpsOnlyInOwnMountNamespace ==
    \A p \in Procs : \A i \in DOMAIN log[p] :
        log[p][i].op \in {"mount", "pivot_root", "chroot"} => "mount" \in nsOf[p]

\* C3: the first argument container-init takes main to the init entry point,
\* not to the handling of run, version, help or an unknown command
C3_ContainerInitDispatched ==
    (cli.pc = "done" /\ Len(cli.argv) >= 1 /\ cli.argv[1] = "container-init")
    => cli.branch = "init"

\* C4: a non-empty argument list written to GOMINI_ARGS is decoded by the
\* child to the same elements, as many and in the same order
C4_ArgsRoundTrip ==
    codec.pc = "done" => codec.ok /\ codec.decoded = codec.args

\* C5: the child runs the initialization sequence with the hostname, the
\* argument list and the working directory the parent held when it spawned it
C5_StateRoundTrip ==
    pc["child"] \notin {"none", "handle"} =>
        /\ ret["child"] \notin {"container init", "unmarshal args"}
        /\ ret["child"] # "load config in init" =>
              /\ cp["child"].Hostname = cp["parent"].Hostname
              /\ cp["child"].Args = cp["parent"].Args
              /\ cp["child"].WorkingDir = cp["parent"].WorkingDir

\* C6: on the re-exec path with a cgroup manager, once the child was started
\* the parent has called Cleanup after the wait returned, whether the wait
\* reported success or an error, when Run returns
C6_CleanupAfterWait ==
    (pc["parent"] = "returned" /\ cp["parent"].HasManager /\ ChildStarted)
    => /\ First("parent", "wait") > 0
       /\ First("parent", "Cleanup") > First("parent", "wait")

\* the error branch of C6: the wait reported an error and Cleanup was called
C6_Witness ==
    /\ pc["parent"] = "returned"
    /\ cp["parent"].HasManager
    /\ Did("parent", "wait", FALSE)
    /\ First("parent", "Cleanup") > First("parent", "wait")

\* C7, as claimed: with a cgroup set up, Run has called Cleanup whenever it
\* returns, on either path and whatever step failed
C7_CleanupWheneverRunReturns ==
    (pc["parent"] = "returned" /\ cp["parent"].HasManager)
    => First("parent", "Cleanup") > 0

\* C7, amended: with a cgroup set up, Run has called Cleanup when it returns
\* exactly when it took the re-exec path and the child was started; when the
\* pipe or the spawn fails, and on the in-process path, it returns without it
C7_CleanupIffChildStarted ==
    (pc["parent"] = "returned" /\ cp["parent"].HasManager)
    => (First("parent", "Cleanup") > 0 <=> ChildStarted)

\* Run returned after a failed spawn, the cgroup still there and never cleaned up
C7_Witness ==
    /\ pc["parent"] = "returned"
    /\ cp["parent"].HasManager
    /\ Did("parent", "start", FALSE)
    /\ First("parent", "Cleanup") = 0
    /\ cgroup.exists

\* C8: every Cleanup the orchestrator calls comes after the child has exited
C8_CleanupOnlyAfterChildExit ==
    \A i \in DOMAIN log["parent"] :
        log["parent"][i].op = "Cleanup" => log["parent"][i].peer = "exited"

\* Cleanup was called, the child having exited and left the cgroup
C8_Witness ==
    /\ Did("parent", "AddProcess", TRUE)
    /\ \E i \in DOMAIN log["parent"] :
          /\ log["parent"][i].op = "Cleanup"
          /\ log["parent"][i].ok
          /\ log["parent"][i].peer = "exited"

\* the steps of the initialization sequence p has completed before index e,
\* in the order hostname, SwitchRoot, the five mounts, working directory
InitOrderBefore(p, e) ==
    LET h == Pos(p, "sethostname", cp[p].Hostname)
        s == Pos(p, "SwitchRoot", "")
        m == Pos(p, "CreateBasicMounts", "")
        mt(k) == Pos(p, "mount", BasicMounts[k])
        W == {j \in DOMAIN log[p] :
                j > m /\ log[p][j].op = "chdir"
                /\ log[p][j].arg = cp[p].WorkingDir /\ log[p][j].ok}
        w == IF W = {} THEN 0 ELSE CHOOSE i \in W : \A j \in W : i <= j
    IN /\ cp[p].Hostname # "" => 0 < h /\ h < s
       /\ 0 < s
       /\ s < mt(1)
       /\ \A k \in 1..(Len(BasicMounts) - 1) : mt(k) < mt(k + 1)
       /\ mt(Len(BasicMounts)) < m
       /\ m < e
       /\ cp[p].WorkingDir # "" => m < w /\ w < e

\* index i of p's log is a failed step of the initialization sequence
FailedStep(p, i) ==
    /\ ~log[p][i].ok
    /\ \/ log[p][i].op \in {"sethostname", "SwitchRoot", "CreateBasicMounts"}
       \/ /\ log[p][i].op = "chdir"
          /\ Pos(p, "CreateBasicMounts", "") > 0
          /\ i > Pos(p, "CreateBasicMounts", "")

\* C9: the target is exec'd only after hostname, SwitchRoot, the baseline
\* mounts and the change of working directory have succeeded in this order;
\* a failed step ends the sequence with an error and no exec is attempted
C9_ExecOnlyAfterInitSteps ==
    \A p \in Procs :
        /\ \A e \in DOMAIN log[p] : log[p][e].op = "exec" => InitOrderBefore(p, e)
        /\ \A i \in DOMAIN log[p] : FailedStep(p, i) =>
              /\ i = Len(log[p])
              /\ ret[p] \notin {"pending", "nil"}
              /\ pc[p] \in {"returned", "exited"}

\* the child exec'd the target with a hostname and a working directory set
C9_Witness ==
    /\ cp["child"].Hostname # ""
    /\ cp["child"].WorkingDir # ""
    /\ Did("child", "exec", TRUE)
    /\ pc["child"] = "target"

\* C10: PrepareRootfs having succeeded, SwitchRoot returns an error exactly
\* when PivotRoot failed and ChrootFallback failed too; ChrootFallback runs
\* only after PivotRoot returned an error
C10_SwitchRootFailsIffBothFail ==
    \A p \in Procs :
        /\ (Did(p, "PrepareRootfs", TRUE) /\ First(p, "SwitchRoot") > 0) =>
              (Did(p, "SwitchRoot", FALSE)
                 <=> Did(p, "PivotRoot", FALSE) /\ Did(p, "ChrootFallback", FALSE))
        /\ (First(p, "chroot") > 0 \/ First(p, "ChrootFallback") > 0) =>
              /\ Did(p, "PivotRoot", FALSE)
              /\ ~Did(p, "PivotRoot", TRUE)
              /\ First(p, "PivotRoot") < First(p, "ChrootFallback")
        /\ (Did(p, "PrepareRootfs", TRUE) /\ pc[p] \in {"mounts", "workdir", "exec", "target"})
              => Did(p, "SwitchRoot", TRUE)

\* pivot_root failed, the chroot fallback succeeded and SwitchRoot returned nil
C10_Witness ==
    \E p \in Procs :
        /\ Did(p, "PrepareRootfs", TRUE)
        /\ Did(p, "PivotRoot", FALSE)
        /\ Did(p, "ChrootFallback", TRUE)
        /\ Did(p, "SwitchRoot", TRUE)

\* the operations on the root filesystem and the mount table
RootfsOps == {"mkdir", "pivot_root", "chroot", "mount", "unmount", "removeall"}

\* C11: when the rootfs path does not exist, SwitchRoot returns an error and
\* the process has attempted no pivot_root, chroot, mount or unmount and has
\* not created .old_root
C11_NoRootfsNoSyscall ==
    \A p \in Procs :
        Did(p, "stat", FALSE) =>
            /\ Did(p, "SwitchRoot", FALSE)
            /\ ret[p] = "switch root"
            /\ \A i \in DOMAIN log[p] : log[p][i].op \notin RootfsOps

\* the child, on the re-exec path, found no rootfs and returned the error
C11_Witness ==
    /\ ~env.rootfsExists
    /\ Did("child", "stat", FALSE)
    /\ ret["child"] = "switch root"
    /\ pc["child"] \in {"returned", "exited"}

\* the field of the limits l that the limit file f carries
LimitField(l, f) ==
    CASE f = "cpu.max" -> l.CPUQuota
      [] f = "memory.max" -> l.Memory
      [] f = "pids.max" -> l.Pids

\* ApplyLimits has returned nil for the limits of the state
LimitsApplied == cgm.pc \in {"stats", "done"} /\ cgm.err = "" /\ cgm.exists

\* C12: ApplyLimits writes a limit file only if its field is positive; the
\* file of a zero or negative field keeps what the kernel put there, and a
\* file that was written holds its positive field; when ApplyLimits returned
\* nil the files written are exactly those of the positive fields
C12_LimitWrittenOnlyIfPositive ==
    /\ \A i \in DOMAIN cgm.ops :
          (cgm.ops[i].op = "write" /\ cgm.ops[i].name \in LimitFiles)
          => LimitField(cgm.limits, cgm.ops[i].name) > 0
    /\ \A f \in LimitFiles :
          /\ LimitField(cgm.limits, f) <= 0 => cgm.files[f] = KernelDefault
          /\ cgm.files[f].set =>
                cgm.files[f].v1 = LimitField(cgm.limits, f) /\ cgm.files[f].v1 > 0
          /\ LimitsApplied => (cgm.files[f].set <=> LimitField(cgm.limits, f) > 0)

\* limits with cpuQuota 0, memory 0 and a positive pids applied: pids.max
\* alone was written
C12_Witness ==
    /\ LimitsApplied
    /\ cgm.limits.CPUQuota = 0
    /\ cgm.limits.Memory = 0
    /\ cgm.limits.Pids > 0
    /\ cgm.files["pids.max"] = [set |-> TRUE, v1 |-> cgm.limits.Pids, v2 |-> 0]
    /\ cgm.files["cpu.max"] = KernelDefault
    /\ cgm.files["memory.max"] = KernelDefault
    /\ Cardinality({i \in DOMAIN cgm.ops : cgm.ops[i].name \in LimitFiles}) = 1

\* C13: the path NewCgroupManager computes for a container id is the mount
\* point, /gomini/ and the id, one after the other
C13_CgroupPathIsMountPrefixId ==
    cgm.pc = "setup" =>
        cgm.CgroupPath = cgm.mount \o <<"/", "gomini", "/">> \o cgm.containerID

\* C16: GetStats returns no error, and each field of its result is the value
\* of its file when the file was readable and held a number, and zero when
\* not, whatever the other two files were
C16_GetStatsNeverFails ==
    cgm.read # <<>> =>
        /\ ~cgm.statsErr
        /\ cgm.stats.CPUUsage =
              (IF cgm.read[1].readable /\ cgm.read[1].valid
               THEN cgm.read[1].value ELSE 0)
        /\ cgm.stats.MemoryUsage =
              (IF cgm.read[2].readable /\ cgm.read[2].valid
               THEN cgm.read[2].value ELSE 0)
        /\ cgm.stats.PidsCount =
              (IF cgm.read[3].readable /\ cgm.read[3].valid
               THEN cgm.read[3].value ELSE 0)

\* cpu.stat unreadable, memory.current read, pids.current not a number:
\* GetStats returned the memory usage alone
C16_Witness ==
    /\ cgm.pc = "done"
    /\ cgm.read # <<>>
    /\ ~cgm.read[1].readable
    /\ cgm.read[2].valid
    /\ cgm.read[3].readable /\ ~cgm.read[3].valid
    /\ ~cgm.statsErr
    /\ cgm.stats = [CPUUsage |-> 0, MemoryUsage |-> 90, PidsCount |-> 0]

\* the bitwise OR of two natural numbers
RECURSIVE BitOr(_, _)
BitOr(a, b) ==
    IF a = 0 THEN b
    ELSE IF b = 0 THEN a
    ELSE (IF a % 2 = 1 \/ b % 2 = 1 THEN 1 ELSE 0) + 2 * BitOr(a \div 2, b \div 2)

\* the clone flag of a member of the namespace set
FlagOf(k) ==
    CASE k = "uts" -> CLONE_NEWUTS
      [] k = "pid" -> CLONE_NEWPID
      [] k = "mount" -> CLONE_NEWNS
      [] k = "ipc" -> CLONE_NEWIPC
      [] k = "net" -> CLONE_NEWNET
      [] k = "user" -> CLONE_NEWUSER

\* the members a NamespaceConfig enables
Members(nc) ==
    {k \in {"uts", "pid", "mount", "ipc", "net", "user"} :
        CASE k = "uts" -> nc.UTS
          [] k = "pid" -> nc.PID
          [] k = "mount" -> nc.Mount
          [] k = "ipc" -> nc.IPC
          [] k = "net" -> nc.Net
          [] k = "user" -> nc.User}

\* the flags of the members ORed together in the order of the sequence
RECURSIVE OrInOrder(_)
OrInOrder(ks) ==
    IF ks = <<>> THEN 0 ELSE BitOr(FlagOf(Head(ks)), OrInOrder(Tail(ks)))

\* every order in which the members of S can be considered
Orders(S) ==
    {f \in [1..Cardinality(S) -> S] : \A i, j \in DOMAIN f : f[i] = f[j] => i = j}

\* C14: CloneFlags of a namespace set is the OR of the flags of its enabled
\* members, in whatever order they are taken, and holds no other bit; it is
\* zero for the empty set, and no other namespace set has the same flags
C14_CloneFlagsIsOrOfMembers ==
    (nsc.pc = "done" /\ nsc.fn = "CloneFlags") =>
        /\ \A f \in Orders(Members(nsc.nc)) : nsc.flags = OrInOrder(f)
        /\ NamespacesOf(nsc.flags) = Members(nsc.nc)
        /\ Members(nsc.nc) = {} => nsc.flags = 0
        /\ \A other \in NamespaceConfigs :
              CloneFlags(other) = nsc.flags => other = nsc.nc

\* the flags of the set {PID, Mount, Net} were computed
C14_Witness ==
    /\ nsc.pc = "done"
    /\ nsc.fn = "CloneFlags"
    /\ Members(nsc.nc) = {"pid", "mount", "net"}
    /\ nsc.flags = CLONE_NEWPID + CLONE_NEWNS + CLONE_NEWNET

\* C15: WaitForChild returns the exit code, unchanged and without an error,
\* of a child that exited; 128 + the signal number, without an error, of a
\* child a signal killed; an error for any other wait status
C15_ExitStatusTranslated ==
    (nsc.pc = "done" /\ nsc.fn = "WaitForChild" /\ nsc.wait4Ok) =>
        CASE nsc.event.kind = "exited" -> nsc.code = nsc.event.n /\ nsc.err = ""
          [] nsc.event.kind = "signaled" ->
                nsc.code = SignalBase + nsc.event.n /\ nsc.err = ""
          [] OTHER -> nsc.err # ""

\* signal 9 killed the child and WaitForChild returned 137
C15_Witness ==
    /\ nsc.pc = "done"
    /\ nsc.fn = "WaitForChild"
    /\ nsc.event.kind = "signaled"
    /\ nsc.event.n = 9
    /\ nsc.code = 137
    /\ nsc.err = ""

\* runCommand has settled on a command: the flags parsed, the bundle loaded
Settled == rc.pc = "done" /\ rc.exit = 0

\* C17: with the command overridden to "/bin/echo hi" the final argument
\* list is the two elements /bin/echo and hi, whatever the bundle's arguments
\* and the positional arguments are
C17_CmdOverrideSplitsIntoArgs ==
    (Settled /\ rc.cmd = <<"/bin/echo", " ", "hi">>)
    => rc.finalArgs = << <<"/bin/echo">>, <<"hi">> >>

\* C18: without a command override the final argument list is the positional
\* list, element for element, when there is one, and the bundle's process
\* arguments when there is none; what follows a leading -- is positional
C18_PositionalThenBundle ==
    (Settled /\ rc.cmd = <<>>) =>
        /\ rc.positionalArgs # <<>> => rc.finalArgs = rc.positionalArgs
        /\ rc.positionalArgs = <<>> => rc.finalArgs = rc.configArgs
        /\ (Len(rc.args) > 1 /\ rc.args[1] = <<"-", "-">>)
              => rc.finalArgs = Tail(rc.args)

\* gomini run -- /bin/sh -c hi: the final arguments are the three positional
\* ones, not the bundle's
C18_Witness ==
    /\ Settled
    /\ rc.args = << <<"-", "-">>, <<"/bin/sh">>, <<"-", "c">>, <<"hi">> >>
    /\ rc.finalArgs = << <<"/bin/sh">>, <<"-", "c">>, <<"hi">> >>
    /\ rc.finalArgs # rc.configArgs

\* C19: with both --cmd and positional arguments given, the final command is
\* the positional argument list
C19_PositionalHighestPriority ==
    (Settled /\ rc.cmd # <<>> /\ rc.positionalArgs # <<>>)
    => rc.finalArgs = rc.positionalArgs

\* the namespaces the bundle's configuration asks for
Configured == Members(ConfigFromSpec(cfg.namespaces))

\* the positions of a process inside the initialization sequence
InitPositions == {"hostname", "prepare", "pivot", "chroot", "mounts", "workdir", "exec"}

\* the errors the initialization sequence returns
InitErrors == {"set hostname", "switch root", "create basic mounts",
               "change working directory", "exec process"}

\* C20: Run takes the re-exec path exactly when the PID namespace is
\* configured: the parent then spawns the child with every configured
\* namespace and itself neither unshares nor takes a step of the
\* initialization; otherwise it spawns no child, unshares the configured
\* namespaces in-process and runs the initialization sequence itself
C20_ReexecIffPidNamespace ==
    pc["parent"] # "Run" =>
        IF "pid" \in Configured
        THEN /\ pc["parent"] \in {"spawn", "attach", "wait", "cleanup", "returned"}
             /\ \A i \in DOMAIN log["parent"] :
                   log["parent"][i].op \notin InitOps \cup {"unshare"}
             /\ nsOf["parent"] = {}
             /\ pc["parent"] # "spawn" => First("parent", "pipe") > 0
             /\ ChildStarted <=> pc["child"] # "none"
             /\ ChildStarted => nsOf["child"] = Configured
        ELSE /\ pc["child"] = "none"
             /\ status = NotStarted
             /\ First("parent", "pipe") = 0 /\ First("parent", "start") = 0
             /\ pc["parent"] \in {"unshare", "target", "returned"} \cup InitPositions
             /\ pc["parent"] # "unshare" =>
                   (First("parent", "unshare") = 1 <=> Configured # {})
             /\ pc["parent"] \in InitPositions \cup {"target"} =>
                   nsOf["parent"] = Configured
             /\ pc["parent"] = "returned" =>
                   ret["parent"] \in InitErrors \cup {"create namespaces"}
             /\ ret["parent"] \in InitErrors => nsOf["parent"] = Configured

\* all six namespaces configured: the child was spawned with the six and
\* runs the initialization, the parent has done nothing but spawn and wait
C20_Witness ==
    /\ Configured = {"uts", "pid", "mount", "ipc", "net", "user"}
    /\ nsOf["child"] = Configured
    /\ Did("child", "mount", TRUE)
    /\ pc["parent"] = "wait"
    /\ nsOf["parent"] = {}

\* C21: with GOMINI_BUNDLE_DIR absent or empty (os.Getenv gives "" for both)
\* HandleContainerInit returns the error "container init", and the child has
\* then loaded no configuration and issued no hostname, root-switch, mount,
\* chdir or exec operation
C21_NoBundleDirFailsFirst ==
    (pc["child"] \notin {"none", "handle"} /\ childEnv.GOMINI_BUNDLE_DIR = "")
    => /\ ret["child"] = "container init"
       /\ log["child"] = <<>>
       /\ pc["child"] \in {"returned", "exited"}

\* the child was spawned without a bundle directory and its entry point failed
C21_Witness ==
    /\ Did("parent", "start", TRUE)
    /\ childEnv.GOMINI_BUNDLE_DIR = ""
    /\ ret["child"] = "container init"
    /\ status = Exited(1)

\* the indices of p's log that hold the operation op
Indices(p, op) == {i \in DOMAIN log[p] : log[p][i].op = op}

\* C22: on the re-exec path with a cgroup manager AddProcess is called once,
\* with the child's pid, after the successful spawn and before the wait; it
\* is not called when the spawn failed; whether it failed or not the parent
\* waits, and what Run returns is decided by the child's wait status alone
C22_AddProcessOnceWarningOnly ==
    LET A == Indices("parent", "AddProcess") IN
    /\ Cardinality(A) <= 1
    /\ \A i \in A :
          /\ log["parent"][i].arg = "child"
          /\ cp["parent"].HasManager
          /\ \E j \in 1..(i - 1) :
                log["parent"][j].op = "start" /\ log["parent"][j].ok
          /\ \A j \in Indices("parent", "wait") : i < j
    /\ (cp["parent"].HasManager /\ ChildStarted
           /\ pc["parent"] \in {"wait", "cleanup", "returned"})
          => Cardinality(A) = 1
    /\ (cp["parent"].HasManager /\ ChildStarted /\ pc["parent"] = "returned")
          => /\ Cardinality(Indices("parent", "wait")) = 1
             /\ ret["parent"] = IF status = Exited(0) THEN "nil"
                                ELSE "wait for container process"

\* AddProcess failed, the parent waited all the same and Run returned nil
C22_Witness ==
    /\ Did("parent", "AddProcess", FALSE)
    /\ Did("parent", "wait", TRUE)
    /\ pc["parent"] = "returned"
    /\ ret["parent"] = "nil"

\* the indices of p's log that hold op on a destination of the baseline mounts
MountIndices(p, op) ==
    {i \in DOMAIN log[p] :
        log[p][i].op = op
        /\ log[p][i].arg \in {"/proc", "/dev", "/dev/pts", "/dev/shm", "/sys"}}

\* how many elements of S are at most i
Rank(S, i) == Cardinality({j \in S : j <= i})

\* C23: the baseline mounts are attempted in the order /proc, /dev, /dev/pts,
\* /dev/shm, /sys, each right after the creation of its destination
\* directory; the first failure ends CreateBasicMounts with an error naming
\* the destination, nothing is mounted after it, and no mount is undone
C23_BasicMountsInOrderNoRollback ==
    LET order == <<"/proc", "/dev", "/dev/pts", "/dev/shm", "/sys">> IN
    \A p \in Procs :
        LET D == MountIndices(p, "mkdir")
            M == MountIndices(p, "mount")
        IN /\ Cardinality(D) <= Len(order)
           /\ \A i \in D : log[p][i].arg = order[Rank(D, i)]
           /\ \A i \in M : /\ log[p][i].arg = order[Rank(M, i)]
                           /\ i - 1 \in D
                           /\ log[p][i - 1].arg = log[p][i].arg
                           /\ log[p][i - 1].ok
           /\ \A i \in D \cup M : ~log[p][i].ok =>
                 /\ Len(log[p]) = i + 1
                 /\ log[p][i + 1] = Entry(p, "CreateBasicMounts", log[p][i].arg, FALSE)
                 /\ ret[p] = "create basic mounts"
                 /\ pc[p] \in {"returned", "exited"}
           /\ \A i \in DOMAIN log[p] :
                 log[p][i].op \in {"unmount", "removeall"} =>
                     /\ log[p][i].arg = "/.old_root"
                     /\ \A j \in M : i < j

\* the mount of /dev/pts failed after /proc and /dev had been mounted
C23_Witness ==
    \E p \in Procs :
        /\ Did(p, "mount", FALSE)
        /\ Pos(p, "mount", "/proc") > 0
        /\ Pos(p, "mount", "/dev") > Pos(p, "mount", "/proc")
        /\ log[p][Len(log[p])] = Entry(p, "CreateBasicMounts", "/dev/pts", FALSE)
        /\ ret[p] = "create basic mounts"

\* C24: on the re-exec path with a cgroup manager, the child has run no
\* initialization step and has not exec'd the target as long as the parent
\* has not written its pid to cgroup.procs
C24_ChildStartsInsideCgroup ==
    (cp["parent"].HasManager /\ ChildPhase \in {"init", "target", "exited"}
        /\ \E i \in DOMAIN log["child"] : log["child"][i].op \in InitOps)
    => \E i \in DOMAIN log["parent"] :
          /\ log["parent"][i].op = "AddProcess"
          /\ log["parent"][i].peer = "spawned"

\* C25: a process calls sethostname only after it has entered a UTS
\* namespace of its own, so the hostname of the host is never changed
C25_HostnameOnlyInOwnUtsNamespace ==
    \A p \in Procs : \A i \in DOMAIN log[p] :
        log[p][i].op = "sethostname" => "uts" \in nsOf[p]

\* C26: in one SwitchRoot the root is switched at most once: a process that
\* has completed the pivot_root syscall does not go on to ChrootFallback and
\* issues no chroot
C26_RootSwitchedAtMostOnce ==
    \A p \in Procs :
        /\ Cardinality({i \in DOMAIN log[p] :
                          log[p][i].op \in {"pivot_root", "chroot"} /\ log[p][i].ok}) <= 1
        /\ Did(p, "pivot_root", TRUE) =>
              /\ First(p, "ChrootFallback") = 0
              /\ First(p, "chroot") = 0

\* C27: of two containers with distinct ids, no call of one's manager
\* creates, writes or removes anything in the cgroup directory of the other
\* or below it
C27_NoEffectOnOtherCgroup ==
    \A i \in DOMAIN cgs.ops :
        LET o == cgs.ops[i] IN
        \A other \in Containers \ {o.c} :
            \A d \in o.touched : ~IsUnder(d, cgs.CgroupPath[other])

\* the operations that change the isolation state of the process issuing
\* them, and the exec of the target
IsolationOps == {"unshare", "sethostname", "pivot_root", "chroot", "mount",
                 "unmount", "chdir", "exec"}

\* C28: on the re-exec path the parent issues no unshare, sethostname,
\* pivot_root, chroot, mount, chdir or exec from the call of Run to its
\* return and enters no namespace; these operations are the child's
C28_ParentIsolationUnchanged ==
    ConfigFromSpec(cfg.namespaces).PID =>
        /\ \A i \in DOMAIN log["parent"] : log["parent"][i].op \notin IsolationOps
        /\ nsOf["parent"] = {}
        /\ pc["parent"] \notin InitPositions \cup {"unshare", "target"}

\* Run returned on the re-exec path after the child had set the hostname,
\* pivoted, mounted and exec'd the target
C28_Witness ==
    /\ ConfigFromSpec(cfg.namespaces).PID
    /\ pc["parent"] = "returned"
    /\ Did("parent", "wait", TRUE)
    /\ Did("child", "sethostname", TRUE)
    /\ Did("child", "pivot_root", TRUE)
    /\ Did("child", "mount", TRUE)
    /\ Did("child", "exec", TRUE)

\* the entries of a log that mark the return of a function, not an operation
ReturnMarkers == {"PrepareRootfs", "PivotRoot", "ChrootFallback", "SwitchRoot",
                  "CreateBasicMounts"}

\* the operations a run attempts once at most
OnceOps == {"pipe", "start", "AddProcess", "wait", "Cleanup", "unshare",
            "LoadConfig", "sethostname", "stat", "pivot_root", "chroot",
            "unmount", "removeall", "exec"}

\* the operations whose failure is a warning, and the wait, whose failure is
\* the exit status of the child
WarningOps == {"unmount", "removeall", "AddProcess", "Cleanup", "wait"}

\* index i of p's log is an operation of PivotRoot
InPivotRoot(p, i) ==
    \/ log[p][i].op = "pivot_root"
    \/ /\ log[p][i].op = "chdir"
       /\ i > 1
       /\ log[p][i - 1].op = "pivot_root"

\* C29: no operation is attempted twice in a run, each baseline mount
\* counting for itself; a failed operation whose failure is not a warning
\* ends the function with an error and nothing is attempted after it, but for
\* a failure in PivotRoot, after which ChrootFallback alone is attempted, once
C29_NoRetry ==
    \A p \in Procs :
        /\ \A op \in OnceOps : Cardinality(Indices(p, op)) <= 1
        /\ \A d \in {BasicMounts[k] : k \in DOMAIN BasicMounts} :
              \A op \in {"mkdir", "mount"} :
                  Cardinality({i \in Indices(p, op) : log[p][i].arg = d}) <= 1
        /\ Cardinality(Indices(p, "ChrootFallback")) <= 1
        /\ \A i \in DOMAIN log[p] :
              (~log[p][i].ok /\ log[p][i].op \notin ReturnMarkers \cup WarningOps) =>
                  IF InPivotRoot(p, i)
                  THEN /\ Len(log[p]) > i
                       /\ log[p][i + 1] = Entry(p, "PivotRoot", "", FALSE)
                       /\ Len(log[p]) > i + 1 =>
                             log[p][i + 2].op = "chdir" /\ log[p][i + 2].arg = "rootfs"
                       /\ \A j \in (i + 1)..Len(log[p]) :
                             log[p][j].op \notin {"pivot_root", "PrepareRootfs", "stat"}
                  ELSE /\ \A j \in (i + 1)..Len(log[p]) :
                             log[p][j].op \in ReturnMarkers /\ ~log[p][j].ok
                       /\ ret[p] \notin {"pending", "nil"}
                       /\ pc[p] \in {"returned", "exited"}

\* pivot_root failed, the fallback was taken once and the run went on to the
\* exec, which failed and was not tried again
C29_Witness ==
    \E p \in Procs :
        /\ Did(p, "pivot_root", FALSE)
        /\ Did(p, "chroot", TRUE)
        /\ Did(p, "exec", FALSE)
        /\ ret[p] = "exec process"

\* the indices of the manager's operations on cgroup.subtree_control
SubtreeWrites == {i \in DOMAIN cgm.ops : cgm.ops[i].name = "cgroup.subtree_control"}

\* C30: Setup returns an error exactly when the creation of the cgroup
\* directory failed; a failed write to cgroup.subtree_control of the parent
\* group leaves it successful; what is written there is +cpu, +memory, +pids
\* for the controllers that are available, and nothing when none of them is
C30_SetupFailsOnlyOnMkdir ==
    cgm.ops # <<>> =>
        LET mk == cgm.ops[1]
            has(c) == \E i \in DOMAIN cgm.Controllers : cgm.Controllers[i] = c
            expected == (IF has("cpu") THEN <<"+cpu">> ELSE <<>>)
                        \o (IF has("memory") THEN <<"+memory">> ELSE <<>>)
                        \o (IF has("pids") THEN <<"+pids">> ELSE <<>>)
        IN /\ mk.op = "mkdirall" /\ mk.dir = cgm.CgroupPath
           /\ cgm.err = "create cgroup directory" <=> ~mk.ok
           /\ ~mk.ok => cgm.pc = "done" /\ ~cgm.exists /\ Len(cgm.ops) = 1
           /\ mk.ok => /\ cgm.exists
                       /\ cgm.pc \in {"limits", "stats", "done"}
                       /\ SubtreeWrites = IF expected = <<>> THEN {} ELSE {2}
           /\ \A i \in SubtreeWrites :
                 /\ cgm.ops[i].op = "write"
                 /\ cgm.ops[i].dir = Dir(cgm.CgroupPath)
                 /\ cgm.ops[i].val = expected

\* the controllers could not be enabled and Setup succeeded all the same
C30_Witness ==
    /\ cgm.pc = "limits"
    /\ cgm.err = ""
    /\ cgm.exists
    /\ cgm.Controllers = <<"memory", "io">>
    /\ Len(cgm.ops) = 2
    /\ cgm.ops[2] = FsOp("write", Dir(cgm.CgroupPath), "cgroup.subtree_control",
                         <<"+memory">>, FALSE)

\* the indices of the manager's writes of limit files
LimitWriteIndices ==
    {i \in DOMAIN cgm.ops : cgm.ops[i].op = "write" /\ cgm.ops[i].name \in LimitFiles}

\* the place of a limit file in the order of ApplyLimits
LimitOrder(f) ==
    CASE f = "cpu.max" -> 1
      [] f = "memory.max" -> 2
      [] f = "pids.max" -> 3

\* the error ApplyLimits returns when the write of a limit file failed
LimitError(f) ==
    CASE f = "cpu.max" -> "set CPU limit"
      [] f = "memory.max" -> "set memory limit"
      [] f = "pids.max" -> "set pids limit"

\* ApplyLimits has returned
ApplyLimitsReturned == cgm.exists /\ cgm.pc \in {"stats", "done"}

\* C31: ApplyLimits writes cpu.max, memory.max, pids.max in this order; it
\* returns an error exactly when one of its writes failed, the error names
\* the resource of that write, nothing is written after it, and the files
\* written before it keep what was written
C31_LimitsInOrderFirstFailureEnds ==
    ApplyLimitsReturned =>
        LET W == LimitWriteIndices IN
        /\ \A i, j \in W :
              i < j => LimitOrder(cgm.ops[i].name) < LimitOrder(cgm.ops[j].name)
        /\ cgm.err # "" <=> \E i \in W : ~cgm.ops[i].ok
        /\ \A i \in W :
              IF cgm.ops[i].ok
              THEN cgm.files[cgm.ops[i].name] = cgm.ops[i].val
              ELSE /\ cgm.err = LimitError(cgm.ops[i].name)
                   /\ \A j \in W : j <= i
                   /\ cgm.files[cgm.ops[i].name] = KernelDefault
        /\ \A f \in LimitFiles :
              (\A i \in W : cgm.ops[i].name # f) => cgm.files[f] = KernelDefault

\* cpu.max was written, the write of memory.max failed, pids.max was not
\* attempted though a pids limit was given
C31_Witness ==
    /\ ApplyLimitsReturned
    /\ cgm.limits.Pids > 0
    /\ cgm.err = "set memory limit"
    /\ cgm.files["cpu.max"].set
    /\ ~cgm.files["memory.max"].set
    /\ \A i \in LimitWriteIndices : cgm.ops[i].name # "pids.max"

\* C32: PivotRoot returns nil when pivot_root and the chdir to the new /
\* succeeded, whether the lazy unmount and the removal of /.old_root
\* succeeded or not, both having been attempted; it returns an error when
\* pivot_root or the chdir failed, and after a failed pivot_root it attempts
\* neither the unmount nor the removal
C32_PivotRootBestEffortCleanup ==
    \A p \in Procs : \A i \in Indices(p, "pivot_root") :
        LET l == log[p]
            ret_ == CHOOSE j \in Indices(p, "PivotRoot") : TRUE
        IN /\ Cardinality(Indices(p, "PivotRoot")) = 1
           /\ IF ~l[i].ok
              THEN /\ ret_ = i + 1
                   /\ ~l[ret_].ok
                   /\ Indices(p, "unmount") = {}
                   /\ Indices(p, "removeall") = {}
              ELSE /\ l[i + 1].op = "chdir" /\ l[i + 1].arg = "/"
                   /\ IF ~l[i + 1].ok
                      THEN /\ ret_ = i + 2
                           /\ ~l[ret_].ok
                           /\ Indices(p, "unmount") = {}
                           /\ Indices(p, "removeall") = {}
                      ELSE /\ l[i + 2].op = "unmount"
                           /\ l[i + 3].op = "removeall"
                           /\ ret_ = i + 4
                           /\ l[ret_].ok

\* the unmount and the removal of /.old_root both failed and PivotRoot
\* returned nil
C32_Witness ==
    \E p \in Procs :
        /\ Did(p, "pivot_root", TRUE)
        /\ Did(p, "unmount", FALSE)
        /\ Did(p, "removeall", FALSE)
        /\ Did(p, "PivotRoot", TRUE)

\* execProcess has returned, or the target runs
ExecSettled == ex.pc \in {"done", "target"} /\ ex.err # "validate config"

\* C33: a configuration with no environment, its list absent or empty, has
\* the target exec'd with the default PATH entry alone, one with a non-empty
\* list with that list; with no argument execProcess returns an error and
\* attempts no exec
C33_DefaultPathWhenNoEnvironment ==
    ExecSettled =>
        IF Len(ex.Args) = 0
        THEN ~ex.attempted /\ ex.err = "exec process" /\ ex.pc = "done"
        ELSE /\ ex.attempted
             /\ ex.binary = ex.Args[1]
             /\ ex.argv = ex.Args
             /\ ex.envp = IF ex.configEnv.items = <<>>
                          THEN <<"PATH=/usr/local/sbin:/usr/local/bin:/usr/sbin:/usr/bin:/sbin:/bin">>
                          ELSE ex.configEnv.items

\* C34: every write of cpu.max carries a quota and a period that are both
\* positive, the period being the configured one, or 100000 when it is zero
C34_CpuMaxQuotaAndPeriodPositive ==
    \A i \in DOMAIN cgm.ops :
        (cgm.ops[i].op = "write" /\ cgm.ops[i].name = "cpu.max") =>
            /\ cgm.ops[i].val.v1 = cgm.limits.CPUQuota
            /\ cgm.ops[i].val.v1 > 0
            /\ cgm.ops[i].val.v2 = IF cgm.limits.CPUPeriod = 0 THEN 100000
                                   ELSE cgm.limits.CPUPeriod
            /\ cgm.ops[i].val.v2 > 0

\* a failed SetupCgroups has created a directory
LeftBehind == sc.call.made /\ sc.call.failed # "" /\ sc.call.created

\* SetupCgroups: the fields are installed when and only when the three steps
\* succeeded; after a failure an error is returned and they are as before
InstalledOnlyOnSuccess ==
    sc.call.made =>
        /\ (sc.call.failed = "") <=> (sc.call.err = "")
        /\ sc.call.failed = "" =>
             /\ sc.CgroupManager = sc.call.manager
             /\ sc.ResourceLimits = sc.call.limits
        /\ sc.call.failed # "" =>
             /\ sc.CgroupManager = sc.call.before.CgroupManager
             /\ sc.ResourceLimits = sc.call.before.ResourceLimits
        /\ sc.call.failed = "ApplyLimits" =>
             \E i \in DOMAIN sc.ops : sc.ops[i].op = "mkdirall" /\ sc.ops[i].ok

\* Run has not touched the directory of the call: it is there, the child is
\* not in it, and no operation of Run was on it
UntouchedByRun ==
    /\ sc.call.manager.CgroupPath \in sc.dirs
    /\ sc.call.manager.CgroupPath \notin sc.attached
    /\ \A i \in DOMAIN sc.runOps : sc.runOps[i].dir # sc.call.manager.CgroupPath

Swapped(l, i, j) ==
    [k \in DOMAIN l |-> IF k = i THEN l[j] ELSE IF k = j THEN l[i] ELSE l[k]]

\* the list without its element i
Without(l, i) == SubSeq(l, 1, i - 1) \o SubSeq(l, i + 1, Len(l))

Occurs(l, name) == \E i \in DOMAIN l : l[i] = name

\* C36: the configuration ConfigFromSpec derives from a list is the one it
\* derives from the list with two elements exchanged, with an element
\* repeated, and with a name that is not one of the six taken out; a member
\* is enabled exactly when its own name occurs in the list
C36_ConfigFromSpecDependsOnNameSet ==
    (nsc.pc = "done" /\ nsc.fn = "ConfigFromSpec") =>
        LET l == nsc.namespaces IN
        /\ \A i, j \in DOMAIN l : ConfigFromSpec(Swapped(l, i, j)) = nsc.config
        /\ \A i \in DOMAIN l :
              /\ ConfigFromSpec(Append(l, l[i])) = nsc.config
              /\ ConfigFromSpec(<<l[i]>> \o l) = nsc.config
        /\ \A i \in DOMAIN l :
              l[i] \notin {"uts", "pid", "mount", "ipc", "network", "user"} =>
                  ConfigFromSpec(Without(l, i)) = nsc.config
        /\ nsc.config.UTS <=> Occurs(l, "uts")
        /\ nsc.config.PID <=> Occurs(l, "pid")
        /\ nsc.config.Mount <=> Occurs(l, "mount")
        /\ nsc.config.IPC <=> Occurs(l, "ipc")
        /\ nsc.config.Net <=> Occurs(l, "network")
        /\ nsc.config.User <=> Occurs(l, "user")
        /\ nsc.err = ""

\* ConfigFromSpec has returned for a list that starts with a name it does not
\* know, repeats "pid" and names the network namespace: PID and Net are set
C36_Witness ==
    /\ nsc.pc = "done"
    /\ nsc.fn = "ConfigFromSpec"
    /\ nsc.namespaces = <<"net", "pid", "network">>
    /\ nsc.config = [NoConfig EXCEPT !.PID = TRUE, !.Net = TRUE]

====
